---- MODULE Spec2Model ----
(***************************************************************************)
(* TEM-104 heat-meter client: frame codec, length-driven receive path,     *)
(* identification, the read_all_data orchestration and the clock reads,    *)
(* modelled from src/core_library/test104.py (with the TemDriver request   *)
(* builder of src/core_library/Улучшенный_TemDriver.py, the factory of     *)
(* src/core_library/factory.py and the clock read of src/masscheck.py),    *)
(* and the payload parsers of src/core_library/parsers.py.  Further        *)
(* sections model create_client and ConnectionPoolManager of factory.py,   *)
(* the exchange of TemDriver and the protocol choice of its callers, the   *)
(* TCP client of src/masscheck.py, the connect / disconnect / exchange     *)
(* session of the TCP client, and the programs that open a client, poll    *)
(* and release it (main, masscheck.py, poll_device of the two GUIs).       *)
(*                                                                         *)
(* Bytes are integers 0..255, byte strings are sequences of bytes; Python  *)
(* index i is TLA+ index i+1.  An Optional value is None (the empty        *)
(* sequence) or Some(v) (the one-element sequence <<v>>).                  *)
(***************************************************************************)
EXTENDS Integers, Sequences, FiniteSets, TLC

VARIABLES
    address,        \* self.address
    kind,           \* the client class: "COM" (Serial) or "TCP"
    protocol_type,  \* self.protocol_type: "None" or a variant tag
    is_open,        \* self.sock is set / self.ser is open
    args,           \* the arguments of the last request build
    packet,         \* the frame returned by the last request build
    builder,        \* which builder produced it, or the exception it raised
    wire,           \* the request frames written to the transport, in order
    rxbuf,          \* the transport's input: bytes delivered and not yet read
    xpc,            \* position in _send_and_receive: idle, header, body, done
    header,         \* header (the bytes read by the header read)
    body,           \* payload_and_crc
    consumed,       \* number of bytes the reads of this exchange returned
    ended,          \* how the exchange ended: ok, stall, eof, timeout, error
    result,         \* the Optional payload the exchange returned
    raised,         \* the exception that escaped the last exchange, or "none"
    pc,             \* position of the caller inside read_all_data, or "idle"
    outcome,        \* how the last read_all_data ended: a record or an exception
    data_keys,      \* data: the keys of the record under construction / returned
    idpayload,      \* the payload the last Identify exchange returned
    detected,       \* the value the last auto_detect_protocol returned
    full_payload,   \* the Tesmart buffer assembled from the windows
    win,            \* the Tesmart loop variable i
    ncalls,         \* number of read_all_data calls made on this client
    called,         \* the parser call last made: << >> before any, else the function
                    \* name followed by its arguments other than the payload
    parser,         \* the variant whose parser class it was called on
    pdata,          \* the payload it was given (one byte for a function of a byte)
    parsed,         \* the value it returned
    fargs,          \* the arguments of the create_client call, or None before it
    fclient,        \* the client create_client returned (its fields), or None
    fraised,        \* the exception create_client raised, or "none"
    fclass,         \* the client class create_client called, or "none"
    drv_protocol,   \* protocol of the TemDriver callers: the class chosen, or "none"
    max_connections,  \* ConnectionPoolManager.max_connections
    connections,    \* _connections: the entries (key, value) in insertion order
    connection_usage, \* _connection_usage: the entries (key, value) in insertion order
    pool_made,      \* number of clients the pool manager has created; a client is
                    \* named by its number
    disconnected,   \* the clients on which disconnect() has been called
    pool_ret,       \* the last call on the pool manager and what it returned
    sock_created,   \* number of socket.socket() calls made by connect
    sock_connected, \* number of sock.connect() calls that succeeded
    sock_closed,    \* number of sock.close() calls
    last_call,      \* the method last called on the TCP client, or "none"
    caller,         \* the program that opens the client and polls, or "none"
    cpc             \* its position: start, connected, polled, except, finally, end

client == <<address, kind, protocol_type, is_open>>
build == <<args, packet, builder>>
exch == <<wire, rxbuf, xpc, header, body, consumed, ended, result, raised>>
orch == <<pc, outcome, data_keys, idpayload, detected, full_payload, win, ncalls>>
parse == <<called, parser, pdata, parsed>>
factory == <<fargs, fclient, fraised, fclass>>
pool == <<max_connections, connections, connection_usage, pool_made, disconnected, pool_ret>>
session == <<sock_created, sock_connected, sock_closed, last_call>>
callers == <<caller, cpc>>
extra == <<factory, drv_protocol, pool, session, callers>>
vars == <<client, build, exch, orch, parse, extra>>

-----------------------------------------------------------------------------
(* Protocol constants, src/core_library/test104.py:10-18 *)
REQUEST_START_BYTE == 85
RESPONSE_START_BYTE == 170
CMD_GROUP_CONNECTION == 0
CMD_GROUP_READ_MEM == 15
CMD_GROUP_READ_RAM == 12
CMD_IDENTIFY == 0
CMD_READ_CONFIG == 1
CMD_READ_RTC == 2
CMD_READ_RAM == 1

-----------------------------------------------------------------------------
(* Bounds of the model *)
MaxParamLen == 3

(* Sample inputs *)
AddrSamples == {-1, 0, 1, 2, 247, 248, 255, 256}
GroupSamples == {CMD_GROUP_CONNECTION, CMD_GROUP_READ_MEM, CMD_GROUP_READ_RAM}
CmdSamples == {CMD_IDENTIFY, CMD_READ_CONFIG, CMD_READ_RTC}
ParamBytes == {1, 128, 255}

-----------------------------------------------------------------------------
(* Helpers *)
None == << >>
Some(v) == << v >>

IsByte(x) == x \in 0..255

SeqsUpTo(S, n) == UNION {[1..k -> S] : k \in 0..n}

(* sum(packet), summed by halves so that a long frame needs little depth *)
RECURSIVE SumRange(_, _, _)
SumRange(s, lo, hi) ==
    IF lo > hi THEN 0
    ELSE IF lo = hi THEN s[lo]
    ELSE LET mid == (lo + hi) \div 2
         IN  SumRange(s, lo, mid) + SumRange(s, mid + 1, hi)

SumSeq(s) == SumRange(s, 1, Len(s))

(* (~x) & 0xFF on a Python int: the low byte of -x-1 *)
InvByte(x) == (-x - 1) % 256

-----------------------------------------------------------------------------
(* Frame codec: request building *)

(* bytearray(list) raises ValueError unless every element is in range(256) *)
BytearrayOK(s) == \A i \in 1..Len(s) : IsByte(s[i])

(* Mutant: the checksum byte is the low byte of the sum, not its complement *)
create_packet_sum(addr, group, cmd, data) ==
    LET head == <<REQUEST_START_BYTE, addr, InvByte(addr), group, cmd, Len(data)>>
        pkt  == head \o data
    IN  Append(pkt, SumSeq(pkt) % 256)

(* Mutant: the checksum is computed before the parameter bytes are appended *)
create_packet_headsum(addr, group, cmd, data) ==
    LET head == <<REQUEST_START_BYTE, addr, InvByte(addr), group, cmd, Len(data)>>
    IN  Append(head \o data, InvByte(SumSeq(head)))

(* TEM104_Base_Client._create_packet; defined when the header is a bytearray *)
create_packet(addr, group, cmd, data) ==
    LET head == <<REQUEST_START_BYTE, addr, InvByte(addr), group, cmd, Len(data)>>
        pkt  == head \o data
    IN  Append(pkt, InvByte(SumSeq(pkt)))

(* TemDriver._calculate_checksum *)
calculate_checksum(pkt) == InvByte(SumSeq(pkt)) % 256

(* TemDriver._create_request *)
create_request(addr, cgrp, cmd, data) ==
    LET inv_address == InvByte(addr)
        pkt == <<85, addr, inv_address, cgrp, cmd, Len(data)>> \o data
    IN  Append(pkt, calculate_checksum(pkt))

-----------------------------------------------------------------------------
(* Codec specification: the request builders applied to drawn inputs *)

ExchIdle ==
    /\ wire = << >>
    /\ rxbuf = << >>
    /\ xpc = "idle"
    /\ header = << >>
    /\ body = << >>
    /\ consumed = 0
    /\ ended = "none"
    /\ result = None
    /\ raised = "none"

OrchIdle ==
    /\ pc = "idle"
    /\ outcome = "none"
    /\ data_keys = {}
    /\ idpayload = None
    /\ detected = "unrun"
    /\ full_payload = << >>
    /\ win = 0
    /\ ncalls = 0

(* No parser function has been called *)
ParseIdle ==
    /\ called = << >>
    /\ parser = "None"
    /\ pdata = << >>
    /\ parsed = None

(* create_client has not been called *)
FactoryIdle ==
    /\ fargs = None
    /\ fclient = None
    /\ fraised = "none"
    /\ fclass = "none"

(* No pool manager is in use *)
PoolIdle ==
    /\ max_connections = 0
    /\ connections = << >>
    /\ connection_usage = << >>
    /\ pool_made = 0
    /\ disconnected = {}
    /\ pool_ret = None

(* No socket call has been counted *)
SessionIdle ==
    /\ sock_created = 0
    /\ sock_connected = 0
    /\ sock_closed = 0
    /\ last_call = "none"

(* No calling program is running *)
CallerIdle ==
    /\ caller = "none"
    /\ cpc = "none"

ExtraIdle == FactoryIdle /\ drv_protocol = "none" /\ PoolIdle /\ SessionIdle /\ CallerIdle

InitCodec ==
    /\ address \in AddrSamples
    /\ kind \in {"COM", "TCP"}
    /\ protocol_type = "None"
    /\ is_open = FALSE
    /\ args = None
    /\ packet = << >>
    /\ builder = "none"
    /\ ExchIdle
    /\ OrchIdle
    /\ ParseIdle
    /\ ExtraIdle

(* client._create_packet(group, cmd, data) on a client with self.address *)
CreatePacket ==
    /\ builder = "none"
    /\ \E group \in GroupSamples, cmd \in CmdSamples,
          data \in SeqsUpTo(ParamBytes, MaxParamLen) :
        /\ args' = Some([group |-> group, cmd |-> cmd, data |-> data])
        /\ IF BytearrayOK(<<REQUEST_START_BYTE, address, InvByte(address),
                            group, cmd, Len(data)>>)
           THEN /\ packet' = create_packet(address, group, cmd, data)
                /\ builder' = "_create_packet"
           ELSE /\ packet' = << >>
                /\ builder' = "ValueError"
    /\ UNCHANGED <<client, exch, orch, parse, extra>>

(* driver._create_request(address, cgrp, cmd, data) *)
CreateRequest ==
    /\ builder = "none"
    /\ \E cgrp \in GroupSamples, cmd \in CmdSamples,
          data \in SeqsUpTo(ParamBytes, MaxParamLen) :
        /\ args' = Some([group |-> cgrp, cmd |-> cmd, data |-> data])
        /\ IF BytearrayOK(create_request(address, cgrp, cmd, data))
           THEN /\ packet' = create_request(address, cgrp, cmd, data)
                /\ builder' = "_create_request"
           ELSE /\ packet' = << >>
                /\ builder' = "ValueError"
    /\ UNCHANGED <<client, exch, orch, parse, extra>>

(* The caller drops the frame and builds the next one *)
DropPacket ==
    /\ builder # "none"
    /\ args' = None
    /\ packet' = << >>
    /\ builder' = "none"
    /\ UNCHANGED <<client, exch, orch, parse, extra>>

NextCodec == CreatePacket \/ CreateRequest \/ DropPacket

SpecCodec == InitCodec /\ [][NextCodec]_vars

-----------------------------------------------------------------------------
(* Length-driven receive path of the Serial and TCP clients *)

Min(a, b) == IF a < b THEN a ELSE b
Take(s, n) == SubSeq(s, 1, n)
Drop(s, n) == SubSeq(s, n + 1, Len(s))

(* Mutant: the length is taken from the command byte, header[4] *)
payload_len_cmd(hdr) == hdr[5]

(* payload_len = header[5] *)
payload_len(hdr) == hdr[6]

(* Mutant: the address byte of the response is not compared *)
validate_noaddr(response, addr) ==
    IF \/ response[1] # RESPONSE_START_BYTE
       \/ SumSeq(response) % 256 # 255
    THEN None
    ELSE Some(SubSeq(response, 7, Len(response) - 1))

(* Mutant: the checksum is not verified *)
validate_nosum(response, addr) ==
    IF \/ response[1] # RESPONSE_START_BYTE
       \/ response[2] # addr
    THEN None
    ELSE Some(SubSeq(response, 7, Len(response) - 1))

(* Mutant: the strip keeps the checksum byte, response[6:] *)
validate_keepcrc(response, addr) ==
    IF \/ response[1] # RESPONSE_START_BYTE
       \/ response[2] # addr
       \/ SumSeq(response) % 256 # 255
    THEN None
    ELSE Some(SubSeq(response, 7, Len(response)))

(* The check and the strip that end both _send_and_receive: response[0],   *)
(* response[1], the whole-frame sum, then response[6:-1]                   *)
validate(response, addr) ==
    IF \/ response[1] # RESPONSE_START_BYTE
       \/ response[2] # addr
       \/ SumSeq(response) % 256 # 255
    THEN None
    ELSE Some(SubSeq(response, 7, Len(response) - 1))

-----------------------------------------------------------------------------
(* The peer: what a device may put on the line in answer to a request *)

MaxPayloadLen == 3

FrameAddrs == {1, 2}
PayloadBytes == {65, 255}
MutBytes == {0, 1, 170}
StaleSamples == {<< >>, <<170>>}

(* A response-shaped frame: 0xAA, the address, its complement, the echoed  *)
(* group and command, the payload length, the payload, and the checksum    *)
(* that makes the frame sum to 0xFF modulo 256                             *)
response_frame(addr, group, cmd, payload) ==
    LET pkt == <<RESPONSE_START_BYTE, addr, InvByte(addr), group, cmd, Len(payload)>>
               \o payload
    IN  Append(pkt, InvByte(SumSeq(pkt)))

S3Frame == <<170, 1, 254, 0, 0, 4, 65, 66, 67, 68, 59>>
S4Frame == <<170, 1, 254, 0, 0, 4, 65, 66, 67, 68, 60>>
S3Payload == <<65, 66, 67, 68>>

GoodFrames(group, cmd) ==
    {response_frame(a, group, cmd, p) :
        a \in FrameAddrs, p \in SeqsUpTo(PayloadBytes, MaxPayloadLen)}
    \cup {response_frame(1, 0, 0, S3Payload)}

MutatedFrames(group, cmd) ==
    UNION {{[f EXCEPT ![i] = v] : i \in 1..Len(f), v \in MutBytes} :
              f \in GoodFrames(group, cmd)}

TruncatedFrames(group, cmd) ==
    UNION {{Take(f, n) : n \in 0..(Len(f) - 1)} : f \in GoodFrames(group, cmd)}

ExtendedFrames(group, cmd) ==
    {f \o <<170>> : f \in GoodFrames(group, cmd)}

Streams(group, cmd) ==
    GoodFrames(group, cmd) \cup MutatedFrames(group, cmd)
        \cup TruncatedFrames(group, cmd) \cup ExtendedFrames(group, cmd)
        \cup {S3Frame, S4Frame}

-----------------------------------------------------------------------------
(* One exchange: _send_and_receive(packet) of the Serial and TCP clients *)

(* The Identify request and the ReadFlash request at 0x0180, length 0xFF *)
IdentifyArgs == [group |-> CMD_GROUP_CONNECTION, cmd |-> CMD_IDENTIFY, data |-> << >>]
ReadFlash0180Args ==
    [group |-> CMD_GROUP_READ_MEM, cmd |-> CMD_READ_CONFIG, data |-> <<1, 128, 255>>]

ExRequests == {IdentifyArgs, ReadFlash0180Args}

InitExchange ==
    /\ address \in FrameAddrs
    /\ kind \in {"COM", "TCP"}
    /\ protocol_type = "None"
    /\ is_open \in BOOLEAN
    /\ \E a \in ExRequests :
        /\ args = Some(a)
        /\ packet = create_packet(address, a.group, a.cmd, a.data)
    /\ builder = "_create_packet"
    /\ wire = << >>
    /\ rxbuf \in StaleSamples
    /\ xpc = "idle"
    /\ header = << >>
    /\ body = << >>
    /\ consumed = 0
    /\ ended = "none"
    /\ result = None
    /\ raised = "none"
    /\ OrchIdle
    /\ ParseIdle
    /\ ExtraIdle

(* The guard, reset_input_buffer (Serial) and the write; the peer then     *)
(* delivers some byte stream                                               *)
SendRequest ==
    /\ xpc = "idle"
    /\ builder = "_create_packet"
    /\ \/ /\ ~is_open
          /\ raised' = "ConnectionError"
          /\ ended' = "closed"
          /\ xpc' = "done"
          /\ UNCHANGED <<wire, rxbuf>>
       \/ /\ is_open
          /\ wire' = Append(wire, packet)
          /\ \E stream \in Streams(packet[4], packet[5]) :
                rxbuf' = IF kind = "COM" THEN stream ELSE rxbuf \o stream
          /\ xpc' = "header"
          /\ UNCHANGED <<raised, ended>>
    /\ UNCHANGED <<client, build, parse, extra, orch, header, body, consumed, result>>

(* The end of an exchange that returns None from inside the TCP try block: *)
(* an empty chunk, socket.timeout, or socket.error (which disconnects)     *)
FailTCP(em) ==
    /\ result' = None
    /\ ended' = em
    /\ xpc' = "done"
    /\ is_open' = IF em = "error" THEN FALSE ELSE is_open
    /\ UNCHANGED <<address, kind, protocol_type, build, parse, extra, orch, wire, rxbuf, header,
                   body, consumed, raised>>

(* TCP: one recv(6 - len(header)) of the header loop *)
RecvHeaderTCP ==
    /\ kind = "TCP"
    /\ xpc = "header"
    /\ \/ /\ rxbuf # << >>
          /\ \E n \in 1..Min(6 - Len(header), Len(rxbuf)) :
                /\ header' = header \o Take(rxbuf, n)
                /\ rxbuf' = Drop(rxbuf, n)
                /\ consumed' = consumed + n
                /\ xpc' = IF Len(header) + n < 6 THEN "header" ELSE "body"
          /\ UNCHANGED <<client, build, parse, extra, orch, wire, body, ended, result, raised>>
       \/ /\ rxbuf = << >>
          /\ \E em \in {"eof", "timeout", "error"} : FailTCP(em)

(* TCP: one recv(payload_len + 1 - len(payload_and_crc)) of the body loop, *)
(* and, when it completes the frame, the check and the return              *)
RecvBodyTCP ==
    /\ kind = "TCP"
    /\ xpc = "body"
    /\ \/ /\ rxbuf # << >>
          /\ \E n \in 1..Min(payload_len(header) + 1 - Len(body), Len(rxbuf)) :
                /\ body' = body \o Take(rxbuf, n)
                /\ rxbuf' = Drop(rxbuf, n)
                /\ consumed' = consumed + n
                /\ IF Len(body) + n < payload_len(header) + 1
                   THEN UNCHANGED <<xpc, ended, result>>
                   ELSE /\ xpc' = "done"
                        /\ ended' = "ok"
                        /\ result' = validate(header \o body', address)
          /\ UNCHANGED <<client, build, parse, extra, orch, wire, header, raised>>
       \/ /\ rxbuf = << >>
          /\ \E em \in {"eof", "timeout", "error"} : FailTCP(em)

(* Serial: header = self.ser.read(6), which returns what arrived in time *)
ReadHeaderCOM ==
    /\ kind = "COM"
    /\ xpc = "header"
    /\ LET n == Min(6, Len(rxbuf)) IN
        /\ header' = Take(rxbuf, n)
        /\ rxbuf' = Drop(rxbuf, n)
        /\ consumed' = consumed + n
        /\ IF n < 6
           THEN /\ result' = None
                /\ ended' = "stall"
                /\ xpc' = "done"
           ELSE /\ xpc' = "body"
                /\ UNCHANGED <<result, ended>>
    /\ UNCHANGED <<client, build, parse, extra, orch, wire, body, raised>>

(* Serial: payload_and_crc = self.ser.read(payload_len + 1), the check and *)
(* the return                                                              *)
ReadBodyCOM ==
    /\ kind = "COM"
    /\ xpc = "body"
    /\ LET n == Min(payload_len(header) + 1, Len(rxbuf)) IN
        /\ body' = Take(rxbuf, n)
        /\ rxbuf' = Drop(rxbuf, n)
        /\ consumed' = consumed + n
        /\ xpc' = "done"
        /\ IF n < payload_len(header) + 1
           THEN /\ result' = None
                /\ ended' = "stall"
           ELSE /\ result' = validate(header \o body', address)
                /\ ended' = "ok"
    /\ UNCHANGED <<client, build, parse, extra, orch, wire, header, raised>>

(* Serial: a read raises serial.SerialException, which nothing catches *)
ReadErrorCOM ==
    /\ kind = "COM"
    /\ xpc \in {"header", "body"}
    /\ raised' = "SerialException"
    /\ ended' = "error"
    /\ xpc' = "done"
    /\ UNCHANGED <<client, build, parse, extra, orch, wire, rxbuf, header, body, consumed, result>>

NextExchange ==
    \/ SendRequest
    \/ RecvHeaderTCP
    \/ RecvBodyTCP
    \/ ReadHeaderCOM
    \/ ReadBodyCOM
    \/ ReadErrorCOM

SpecExchange == InitExchange /\ [][NextExchange]_vars

-----------------------------------------------------------------------------
(* _send_and_receive as one step: what the exchange returns for the bytes  *)
(* the transport holds (input) and for the way the input ends (em) when it *)
(* holds less than the frame its header declares                           *)

frame_len(input) == 6 + payload_len(input) + 1

complete(input) == Len(input) >= 6 /\ Len(input) >= frame_len(input)

EndModes(k) == IF k = "COM" THEN {"stall", "error"} ELSE {"eof", "timeout", "error"}

send_and_receive(input, em) ==
    IF kind = "COM" /\ em = "error"
    THEN [result |-> None, raised |-> "SerialException", ended |-> "error",
          open |-> TRUE, rest |-> input]
    ELSE IF complete(input)
    THEN [result |-> validate(Take(input, frame_len(input)), address),
          raised |-> "none", ended |-> "ok", open |-> TRUE,
          rest |-> Drop(input, frame_len(input))]
    ELSE [result |-> None, raised |-> "none", ended |-> em,
          open |-> ~(kind = "TCP" /\ em = "error"), rest |-> << >>]

(* The call self._send_and_receive(pkt), the peer answering with `answer` *)
Exchange(pkt, answer, em) ==
    IF ~is_open
    THEN /\ raised' = "ConnectionError"
         /\ result' = None
         /\ ended' = "closed"
         /\ UNCHANGED <<wire, rxbuf, is_open>>
    ELSE LET input == IF kind = "COM" THEN answer ELSE rxbuf \o answer
             r == send_and_receive(input, em)
         IN  /\ wire' = Append(wire, pkt)
             /\ rxbuf' = r.rest
             /\ is_open' = r.open
             /\ ended' = r.ended
             /\ result' = r.result
             /\ raised' = r.raised

-----------------------------------------------------------------------------
(* Identification: auto_detect_protocol *)

(* payload.decode('ascii', errors='ignore'): bytes above 0x7F are dropped *)
IsAscii(b) == b < 128
decode_ascii_ignore(p) == SelectSeq(p, IsAscii)

(* str.strip(): leading and trailing whitespace removed *)
IsSpace(b) == b \in (9..13) \cup (28..32)

RECURSIVE lstrip(_)
lstrip(t) == IF t # << >> /\ IsSpace(Head(t)) THEN lstrip(Tail(t)) ELSE t

RECURSIVE rstrip(_)
rstrip(t) ==
    IF t # << >> /\ IsSpace(t[Len(t)]) THEN rstrip(SubSeq(t, 1, Len(t) - 1)) ELSE t

strip(t) == rstrip(lstrip(t))

(* sub in t *)
Contains(t, sub) ==
    \E i \in 1..(Len(t) - Len(sub) + 1) : SubSeq(t, i, i + Len(sub) - 1) = sub

(* The model names of the table, as ASCII *)
TEM_104M_1 == <<84, 69, 77, 45, 49, 48, 52, 77, 45, 49>>
TEM_104M == <<84, 69, 77, 45, 49, 48, 52, 77>>
TSM104 == <<84, 83, 77, 49, 48, 52>>
TEM_104_1 == <<84, 69, 77, 45, 49, 48, 52, 45, 49>>
TEM_104 == <<84, 69, 77, 45, 49, 48, 52>>

(* Mutant: the shorter names are tested before the longer ones *)
variant_of_shortfirst(device_name) ==
    IF Contains(device_name, TEM_104) THEN "ARVAS_LEGACY"
    ELSE IF Contains(device_name, TEM_104_1) THEN "ARVAS_LEGACY_1"
    ELSE IF Contains(device_name, TSM104) THEN "TESMART"
    ELSE IF Contains(device_name, TEM_104M) THEN "ARVAS_M"
    ELSE IF Contains(device_name, TEM_104M_1) THEN "ARVAS_M1"
    ELSE "None"

(* The chain of substring tests of auto_detect_protocol *)
variant_of(device_name) ==
    IF Contains(device_name, TEM_104M_1) THEN "ARVAS_M1"
    ELSE IF Contains(device_name, TEM_104M) THEN "ARVAS_M"
    ELSE IF Contains(device_name, TSM104) THEN "TESMART"
    ELSE IF Contains(device_name, TEM_104_1) THEN "ARVAS_LEGACY_1"
    ELSE IF Contains(device_name, TEM_104) THEN "ARVAS_LEGACY"
    ELSE "None"

(* device_name = payload.decode('ascii', errors='ignore').strip() *)
device_name_of(payload) == strip(decode_ascii_ignore(payload))

(* What auto_detect_protocol returns for the Optional payload of the       *)
(* exchange; `if payload` is false for None and for an empty payload       *)
auto_detect(res) ==
    IF res # None /\ res[1] # << >> THEN variant_of(device_name_of(res[1])) ELSE "None"

(* Identification tokens a device may answer with: up to MaxPieces pieces *)
MaxPieces == 3

Pieces == {TEM_104, <<77>>, <<45, 49>>, TSM104, <<32>>, <<128>>, <<88>>}

RECURSIVE Concat(_)
Concat(ss) == IF ss = << >> THEN << >> ELSE Head(ss) \o Concat(Tail(ss))

Tokens == {Concat(ps) : ps \in SeqsUpTo(Pieces, MaxPieces)}

IdentifyAnswers(tokens) ==
    {response_frame(address, CMD_GROUP_CONNECTION, CMD_IDENTIFY, t) : t \in tokens}
        \cup {<< >>}

(* auto_detect_protocol(): the request build, the exchange, the mapping *)
AutoDetectCore(tokens) ==
    IF ~IsByte(address)
    THEN /\ raised' = "ValueError"
         /\ idpayload' = None
         /\ detected' = "unrun"
         /\ UNCHANGED <<wire, rxbuf, is_open, ended, result>>
    ELSE /\ \E answer \in IdentifyAnswers(tokens), em \in EndModes(kind) :
                Exchange(create_packet(address, CMD_GROUP_CONNECTION, CMD_IDENTIFY, << >>),
                         answer, em)
         /\ idpayload' = IF raised' = "none" THEN result' ELSE None
         /\ detected' = IF raised' = "none" THEN auto_detect(result') ELSE "unrun"

(* Identification specification: auto_detect_protocol called on a client *)
InitIdentify ==
    /\ address \in FrameAddrs
    /\ kind \in {"COM", "TCP"}
    /\ protocol_type = "None"
    /\ is_open \in BOOLEAN
    /\ args = None
    /\ packet = << >>
    /\ builder = "none"
    /\ ExchIdle
    /\ pc = "identify"
    /\ outcome = "none"
    /\ data_keys = {}
    /\ idpayload = None
    /\ detected = "unrun"
    /\ full_payload = << >>
    /\ win = 0
    /\ ncalls = 0
    /\ ParseIdle
    /\ ExtraIdle

IdentifyDevice ==
    /\ pc = "identify"
    /\ AutoDetectCore(Tokens)
    /\ pc' = "idle"
    /\ UNCHANGED <<address, kind, protocol_type, build, parse, extra, xpc, header, body, consumed,
                   outcome, data_keys, full_payload, win, ncalls>>

NextIdentify == IdentifyDevice

SpecIdentify == InitIdentify /\ [][NextIdentify]_vars

-----------------------------------------------------------------------------
(* Polling: read_all_data and the per-variant readers, one step per        *)
(* exchange and per pause. `wire` holds the requests the call in progress  *)
(* has written; field values are left out, data_keys is the set of keys of *)
(* the returned dictionary.                                                *)

MaxCalls == 2

BlockLen == 255

ArvasVariants == {"ARVAS_M1", "ARVAS_M", "ARVAS_LEGACY_1", "ARVAS_LEGACY"}

(* The values `protocol` may have when the client is constructed *)
Declared == {"None", "TESMART", "OTHER"} \cup ArvasVariants

(* Tokens the polled device identifies itself with *)
IdTokens == {TEM_104M_1, TEM_104M, TSM104, TEM_104_1, TEM_104 \o <<32>>, <<88>>, << >>}

(* Mutant: read_all_data goes on after an identification that returned None *)
identify_outcome_guess(d) == "none"

(* `if not self.protocol_type: raise RuntimeError` after auto_detect_protocol *)
identify_outcome(d) == IF d = "None" THEN "RuntimeError" ELSE "none"

(* Mutant: identification runs whatever the variant *)
needs_identify_always(p) == TRUE

(* `if not self.protocol_type:` at the head of read_all_data *)
needs_identify(p) == p = "None"

(* Base addresses of the totals block and of the instantaneous block *)
totals_base(v) ==
    CASE v = "ARVAS_M1" -> <<1, 128>>
      [] v = "ARVAS_M" -> <<8, 0>>
      [] v = "ARVAS_LEGACY_1" -> <<1, 0>>
      [] v = "ARVAS_LEGACY" -> <<2, 0>>

instant_base(v) ==
    CASE v = "ARVAS_M1" -> <<64, 0>>
      [] v = "ARVAS_M" -> <<0, 0>>
      [] v = "ARVAS_LEGACY_1" -> <<0, 184>>
      [] v = "ARVAS_LEGACY" -> <<34, 0>>

(* Offsets unpacked, in the order of the assignments of the try block *)
totals_offsets(v) ==
    CASE v = "ARVAS_M1" -> <<[key |-> "Q", offs |-> {32, 16}], [key |-> "M1", offs |-> {28, 12}],
                             [key |-> "T_nar", offs |-> {48}]>>
      [] v = "ARVAS_M" -> <<[key |-> "Q", offs |-> {104, 40}], [key |-> "M1", offs |-> {88, 24}],
                            [key |-> "T_nar", offs |-> {160}]>>
      [] v = "ARVAS_LEGACY_1" -> <<[key |-> "Q", offs |-> {88, 84}],
                                   [key |-> "M1", offs |-> {80, 76}],
                                   [key |-> "T_nar", offs |-> {96}]>>
      [] v = "ARVAS_LEGACY" -> <<[key |-> "Q", offs |-> {40, 88}],
                                 [key |-> "M1", offs |-> {24, 72}],
                                 [key |-> "T_nar", offs |-> {108}]>>

instant_offsets(v) ==
    CASE v = "ARVAS_M1" -> <<[key |-> "T1", offs |-> {0}], [key |-> "T2", offs |-> {4}],
                             [key |-> "G1", offs |-> {32}]>>
      [] v = "ARVAS_M" -> <<[key |-> "T1", offs |-> {0}], [key |-> "T2", offs |-> {4}],
                            [key |-> "G1", offs |-> {64}]>>
      [] v = "ARVAS_LEGACY_1" -> <<[key |-> "T1", offs |-> {8}], [key |-> "T2", offs |-> {12}],
                                   [key |-> "G1", offs |-> {0}]>>
      [] v = "ARVAS_LEGACY" -> <<[key |-> "T1", offs |-> {0}], [key |-> "T2", offs |-> {4}],
                                 [key |-> "G1", offs |-> {64}]>>

tesmart_offsets ==
    <<[key |-> "Q", offs |-> {888, 864}], [key |-> "M1", offs |-> {840, 816}],
      [key |-> "T_nar", offs |-> {1028}], [key |-> "T1", offs |-> {512}],
      [key |-> "T2", offs |-> {516}], [key |-> "G1", offs |-> {648}]>>

(* struct.unpack on payload[o:o+4] raises unless the slice has 4 bytes *)
unpacks(p, offs) == \A o \in offs : Len(p) >= o + 4

(* Keys assigned by a try block before its first failing unpack *)
assigned(p, table) ==
    {table[i].key : i \in {k \in 1..Len(table) : \A j \in 1..k : unpacks(p, table[j].offs)}}

(* `if payload: try: ... except Exception: pass` of the ARVAS readers *)
block_keys(res, table) ==
    IF res # None /\ res[1] # << >> THEN assigned(res[1], table) ELSE {}

(* The try block of _get_tesmart_data: full_payload[0x02FA] is read first *)
tesmart_keys(fp) == IF Len(fp) > 762 THEN assigned(fp, tesmart_offsets) ELSE {}

(* Answers of the device to a block read *)
Zeros(n) == [i \in 1..n |-> 0]

ShortBlockLen == 40

BlockAnswers(group, cmd) ==
    LET full == response_frame(address, group, cmd, Zeros(BlockLen))
    IN  { full,
          response_frame(address, group, cmd, Zeros(ShortBlockLen)),
          response_frame(address, group, cmd, << >>),
          [full EXCEPT ![Len(full)] = (full[Len(full)] + 1) % 256],
          << >> }

(* The memory image of the polled Tesmart device: the byte at address a,   *)
(* chosen so that the bytes at a, a+1, ..., a+4 all differ                 *)
DeviceMemory(a) == a % 251

(* The bytes the device returns for a read of n bytes at address base *)
memory_read(base, n) == [k \in 1..n |-> DeviceMemory(base + k - 1)]

(* Answers of the device to the read of Tesmart window win: the bytes of   *)
(* its memory at the window's base, the same with a bad checksum, silence  *)
WindowAnswers(group, cmd) ==
    LET full == response_frame(address, group, cmd, memory_read(win * 256, BlockLen))
    IN  {full, [full EXCEPT ![Len(full)] = (full[Len(full)] + 1) % 256], << >>}

(* Addresses the polled clients are constructed with *)
PollAddrs == {0, 1, 248, 256}

Init ==
    /\ address \in PollAddrs
    /\ kind \in {"COM", "TCP"}
    /\ protocol_type \in Declared
    /\ is_open = FALSE
    /\ args = None
    /\ packet = << >>
    /\ builder = "none"
    /\ ExchIdle
    /\ OrchIdle
    /\ ParseIdle
    /\ ExtraIdle

(* connect() on a client with no open port or socket (on an open one it   *)
(* returns at once): the open succeeds, or fails with ConnectionError     *)
Connect ==
    /\ pc = "idle"
    /\ ~is_open
    /\ \/ /\ is_open' = TRUE
          /\ rxbuf' = << >>
          /\ raised' = "none"
       \/ /\ is_open' = FALSE
          /\ rxbuf' = rxbuf
          /\ raised' = "ConnectionError"
    /\ UNCHANGED <<address, kind, protocol_type, build, parse, extra, wire, xpc, header, body,
                   consumed, ended, result, orch>>

(* disconnect() on an open client (on a closed one it does nothing) *)
Disconnect ==
    /\ pc = "idle"
    /\ is_open
    /\ is_open' = FALSE
    /\ UNCHANGED <<address, kind, protocol_type, build, parse, extra, exch, orch>>

(* read_all_data() is entered *)
CallReadAllData ==
    /\ pc = "idle"
    /\ ncalls < MaxCalls
    /\ ncalls' = ncalls + 1
    /\ pc' = IF needs_identify(protocol_type) THEN "identify" ELSE "pause"
    /\ wire' = << >>
    /\ result' = None
    /\ raised' = "none"
    /\ ended' = "none"
    /\ outcome' = "none"
    /\ data_keys' = {}
    /\ idpayload' = None
    /\ detected' = "unrun"
    /\ full_payload' = << >>
    /\ win' = 0
    /\ UNCHANGED <<client, build, parse, extra, rxbuf, xpc, header, body, consumed>>

(* self.protocol_type = self.auto_detect_protocol() and the test after it *)
AutoDetect ==
    /\ pc = "identify"
    /\ AutoDetectCore(IdTokens)
    /\ IF raised' # "none"
       THEN /\ outcome' = raised'
            /\ pc' = "idle"
            /\ protocol_type' = protocol_type
       ELSE /\ protocol_type' = detected'
            /\ outcome' = identify_outcome(detected')
            /\ pc' = IF outcome' = "none" THEN "pause" ELSE "idle"
    /\ UNCHANGED <<address, kind, build, parse, extra, xpc, header, body, consumed,
                   data_keys, full_payload, win, ncalls>>

(* time.sleep(0.5) and the dispatch on self.protocol_type *)
Pause ==
    /\ pc = "pause"
    /\ IF protocol_type \in ArvasVariants
       THEN pc' = "totals" /\ outcome' = outcome
       ELSE IF protocol_type = "TESMART"
       THEN pc' = "window" /\ outcome' = outcome
       ELSE pc' = "idle" /\ outcome' = "NotImplementedError"
    /\ UNCHANGED <<client, build, parse, extra, exch, data_keys, idpayload, detected,
                   full_payload, win, ncalls>>

(* One block read of a reader: the request build and the exchange *)
ReadBlock(group, cmd, base, answers) ==
    IF ~IsByte(address)
    THEN /\ raised' = "ValueError"
         /\ UNCHANGED <<wire, rxbuf, is_open, ended, result>>
    ELSE \E answer \in answers, em \in EndModes(kind) :
            Exchange(create_packet(address, group, cmd, Append(base, BlockLen)), answer, em)

(* The totals half of _get_arvas_*_data *)
ReadTotals ==
    /\ pc = "totals"
    /\ ReadBlock(CMD_GROUP_READ_MEM, CMD_READ_CONFIG, totals_base(protocol_type),
                 BlockAnswers(CMD_GROUP_READ_MEM, CMD_READ_CONFIG))
    /\ IF raised' # "none"
       THEN /\ outcome' = raised'
            /\ pc' = "idle"
            /\ data_keys' = data_keys
       ELSE /\ outcome' = outcome
            /\ pc' = "instant"
            /\ data_keys' = data_keys \cup block_keys(result', totals_offsets(protocol_type))
    /\ UNCHANGED <<address, kind, protocol_type, build, parse, extra, xpc, header, body, consumed,
                   idpayload, detected, full_payload, win, ncalls>>

(* The instantaneous half of _get_arvas_*_data and its return *)
ReadInstant ==
    /\ pc = "instant"
    /\ ReadBlock(CMD_GROUP_READ_RAM, CMD_READ_RAM, instant_base(protocol_type),
                 BlockAnswers(CMD_GROUP_READ_RAM, CMD_READ_RAM))
    /\ pc' = "idle"
    /\ IF raised' # "none"
       THEN /\ outcome' = raised'
            /\ data_keys' = data_keys
       ELSE /\ outcome' = "record"
            /\ data_keys' = data_keys \cup block_keys(result', instant_offsets(protocol_type))
    /\ UNCHANGED <<address, kind, protocol_type, build, parse, extra, xpc, header, body, consumed,
                   idpayload, detected, full_payload, win, ncalls>>

(* After the loop of _get_tesmart_data: the decode of full_payload, return *)
TesmartReturn(fp) ==
    /\ pc' = "idle"
    /\ outcome' = "record"
    /\ data_keys' = tesmart_keys(fp)

(* One pass of the window loop of _get_tesmart_data up to its sleep *)
ReadWindow ==
    /\ pc = "window"
    /\ ReadBlock(CMD_GROUP_READ_MEM, CMD_READ_CONFIG, <<win, 0>>,
                 WindowAnswers(CMD_GROUP_READ_MEM, CMD_READ_CONFIG))
    /\ IF raised' # "none"
       THEN /\ outcome' = raised'
            /\ pc' = "idle"
            /\ UNCHANGED <<data_keys, full_payload, win>>
       ELSE IF result' = None \/ result' = Some(<< >>)
       THEN /\ full_payload' = full_payload
            /\ win' = win + 1
            /\ IF win = 4
               THEN TesmartReturn(full_payload)
               ELSE UNCHANGED <<pc, outcome, data_keys>>
       ELSE /\ full_payload' = full_payload \o result'[1]
            /\ pc' = "winpause"
            /\ UNCHANGED <<outcome, data_keys, win>>
    /\ UNCHANGED <<address, kind, protocol_type, build, parse, extra, xpc, header, body, consumed,
                   idpayload, detected, ncalls>>

(* time.sleep(0.2) of a window that gave a payload, then the next pass *)
WindowPause ==
    /\ pc = "winpause"
    /\ win' = win + 1
    /\ IF win = 4
       THEN TesmartReturn(full_payload)
       ELSE pc' = "window" /\ UNCHANGED <<outcome, data_keys>>
    /\ UNCHANGED <<client, build, parse, extra, exch, idpayload, detected, full_payload, ncalls>>

Next ==
    \/ Connect
    \/ Disconnect
    \/ CallReadAllData
    \/ AutoDetect
    \/ Pause
    \/ ReadTotals
    \/ ReadInstant
    \/ ReadWindow
    \/ WindowPause

Spec == Init /\ [][Next]_vars

-----------------------------------------------------------------------------
(* Clock reads: _read_rtc_decimal and _read_rtc_bcd of the client, and     *)
(* _get_current_time of the mass poller. read_all_data of the client       *)
(* calls neither reader; they are called on a client directly.             *)

MaxRtcReads == 2

(* data=b'\x00\x07' of _read_rtc_decimal *)
rtc_decimal_data == <<0, 7>>

(* req_data of _read_rtc_bcd; no request for the other variants *)
rtc_bcd_data(v) ==
    IF v = "ARVAS_LEGACY" THEN Some(<<16, 10>>)
    ELSE IF v = "ARVAS_LEGACY_1" THEN Some(<<0, 7>>)
    ELSE None

(* req_data of _get_current_time; empty (no request) for the other variants *)
current_time_data(v) ==
    IF v \in {"ARVAS_M", "ARVAS_M1", "ARVAS_LEGACY_1"} THEN <<0, 7>>
    ELSE IF v = "ARVAS_LEGACY" THEN <<16, 10>>
    ELSE << >>

(* Clock payloads the device answers with *)
RtcPayloads ==
    { <<12, 34, 17, 5, 8, 25>>,
      <<18, 52, 23, 0, 5, 8, 37>>,
      <<18, 0, 52, 0, 23, 0, 0, 5, 8, 37>>,
      <<18, 52>> }

RtcAnswers ==
    {response_frame(address, CMD_GROUP_READ_MEM, CMD_READ_RTC, t) : t \in RtcPayloads}
        \cup {<< >>}

(* The request build and the exchange of a clock read *)
ReadRtc(req_data) ==
    /\ \E answer \in RtcAnswers, em \in EndModes(kind) :
            Exchange(create_packet(address, CMD_GROUP_READ_MEM, CMD_READ_RTC, req_data),
                     answer, em)
    /\ UNCHANGED <<address, kind, protocol_type, build, parse, extra, xpc, header, body,
                   consumed, orch>>

InitRtc ==
    /\ address \in FrameAddrs
    /\ kind \in {"COM", "TCP"}
    /\ protocol_type \in ArvasVariants \cup {"TESMART"}
    /\ is_open \in BOOLEAN
    /\ args = None
    /\ packet = << >>
    /\ builder = "none"
    /\ ExchIdle
    /\ OrchIdle
    /\ ParseIdle
    /\ ExtraIdle

(* _read_rtc_decimal() *)
ReadRtcDecimal ==
    /\ Len(wire) < MaxRtcReads
    /\ ReadRtc(rtc_decimal_data)

(* _read_rtc_bcd() on a client of one of the two variants it serves *)
ReadRtcBcd ==
    /\ Len(wire) < MaxRtcReads
    /\ rtc_bcd_data(protocol_type) # None
    /\ ReadRtc(rtc_bcd_data(protocol_type)[1])

(* _get_current_time() of the mass poller, for a variant it has a request for *)
GetCurrentTime ==
    /\ Len(wire) < MaxRtcReads
    /\ current_time_data(protocol_type) # << >>
    /\ ReadRtc(current_time_data(protocol_type))

NextRtc == ReadRtcDecimal \/ ReadRtcBcd \/ GetCurrentTime

SpecRtc == InitRtc /\ [][NextRtc]_vars

-----------------------------------------------------------------------------
(* Parsers of core_library/parsers.py. A 32-bit word is kept as the pair   *)
(* of its 16-bit halves (TLC integers are 32-bit signed): an unpacked long *)
(* is the word of its value, an unpacked float the word of its bit pattern *)
(* (0.0 is the word 0). A combined value long + float is kept as the pair  *)
(* of its two parts, and a scaled value keeps its divisor.                 *)

(* bcd_to_int *)
bcd_to_int(b) == (b \div 16) * 10 + (b % 16)

(* struct.unpack('>L', payload[offset:offset+4])[0] on a 4-byte slice *)
be32(p, offset) ==
    <<p[offset + 1] * 256 + p[offset + 2], p[offset + 3] * 256 + p[offset + 4]>>

(* The word of the defaults 0 and 0.0 *)
Zero32 == <<0, 0>>

(* safe_unpack_float: the float at the offset, or the default 0.0 *)
safe_unpack_float(p, offset) ==
    IF p # << >> /\ Len(p) >= offset + 4 THEN be32(p, offset) ELSE Zero32

(* safe_unpack_long: the long at the offset, or the default 0 *)
safe_unpack_long(p, offset) ==
    IF p # << >> /\ Len(p) >= offset + 4 THEN be32(p, offset) ELSE Zero32

(* BaseParser.parse_combined_value *)
parse_combined_value(p, int_offset, float_offset) ==
    [int |-> safe_unpack_long(p, int_offset), frac |-> safe_unpack_float(p, float_offset)]

ParserVariants == ArvasVariants \cup {"TESMART"}

(* The assignments of parse_totals: combined values (key, int_offset,      *)
(* float_offset), then T_nar as a long                                     *)
totals_combined(v) ==
    CASE v = "ARVAS_M1" -> <<<<"Q", 16, 32>>, <<"M1", 12, 28>>, <<"V1", 8, 24>>>>
      [] v = "ARVAS_M" -> <<<<"Q", 40, 104>>, <<"M1", 24, 88>>, <<"V1", 8, 72>>, <<"V2", 12, 76>>>>
      [] v = "ARVAS_LEGACY_1" -> <<<<"Q", 84, 88>>, <<"M1", 76, 80>>, <<"V1", 68, 72>>>>
      [] v = "ARVAS_LEGACY" -> <<<<"Q", 88, 40>>, <<"M1", 72, 24>>, <<"V1", 56, 8>>, <<"V2", 60, 12>>>>
      [] OTHER -> << >>

totals_t_nar(v) ==
    CASE v = "ARVAS_M1" -> Some(48)
      [] v = "ARVAS_M" -> Some(160)
      [] v = "ARVAS_LEGACY_1" -> Some(96)
      [] v = "ARVAS_LEGACY" -> Some(108)
      [] OTHER -> None

(* The assignments of parse_instantaneous: floats (key, offset) *)
instant_floats(v) ==
    CASE v = "ARVAS_M1" -> <<<<"T1", 0>>, <<"T2", 4>>, <<"G1", 32>>, <<"G2", 36>>>>
      [] v = "ARVAS_M" -> <<<<"T1", 0>>, <<"T2", 4>>, <<"G1", 64>>, <<"G2", 68>>>>
      [] v = "ARVAS_LEGACY_1" -> <<<<"T1", 8>>, <<"T2", 12>>, <<"G1", 0>>>>
      [] v = "ARVAS_LEGACY" -> <<<<"T1", 0>>, <<"T2", 4>>, <<"G1", 64>>, <<"G2", 68>>>>
      [] OTHER -> << >>

(* parse_totals of the parser of variant v (BaseParser's for TESMART): the *)
(* dictionary it returns, as a function on its keys                        *)
parse_totals(v, p) ==
    LET comb == totals_combined(v)
        keys == {comb[i][1] : i \in 1..Len(comb)}
                    \cup (IF totals_t_nar(v) # None THEN {"T_nar"} ELSE {})
    IN  [k \in keys |->
            IF k = "T_nar" THEN safe_unpack_long(p, totals_t_nar(v)[1])
            ELSE LET i == CHOOSE j \in 1..Len(comb) : comb[j][1] = k
                 IN  parse_combined_value(p, comb[i][2], comb[i][3])]

(* parse_instantaneous of the parser of variant v *)
parse_instantaneous(v, p) ==
    LET fl == instant_floats(v)
    IN  [k \in {fl[i][1] : i \in 1..Len(fl)} |->
            LET i == CHOOSE j \in 1..Len(fl) : fl[j][1] = k
            IN  safe_unpack_float(p, fl[i][2])]

(* datetime.datetime(year, month, day, hour, minute, second): the value,   *)
(* or None where the constructor raises ValueError                         *)
is_leap(y) == y % 4 = 0 /\ (y % 100 # 0 \/ y % 400 = 0)

days_in_month(y, mo) ==
    IF mo = 2 THEN (IF is_leap(y) THEN 29 ELSE 28)
    ELSE IF mo \in {4, 6, 9, 11} THEN 30 ELSE 31

(* Mutant: the month is not checked *)
datetime_anymonth(y, mo, d, h, mi, s) ==
    IF /\ y \in 1..9999
       /\ d \in 1..31
       /\ h \in 0..23
       /\ mi \in 0..59
       /\ s \in 0..59
    THEN Some([year |-> y, month |-> mo, day |-> d, hour |-> h, minute |-> mi, second |-> s])
    ELSE None

datetime(y, mo, d, h, mi, s) ==
    IF /\ y \in 1..9999
       /\ mo \in 1..12
       /\ d \in 1..days_in_month(y, mo)
       /\ h \in 0..23
       /\ mi \in 0..59
       /\ s \in 0..59
    THEN Some([year |-> y, month |-> mo, day |-> d, hour |-> h, minute |-> mi, second |-> s])
    ELSE None

(* ArvasM1Parser.parse_time / ArvasMParser.parse_time: decimal bytes *)
parse_time_decimal(p) ==
    IF p # << >> /\ Len(p) >= 6
    THEN datetime(2000 + p[6], p[5], p[4], p[3], p[2], p[1])
    ELSE None

(* ArvasLegacy1Parser.parse_time *)
parse_time_legacy_1(p) ==
    IF p # << >> /\ Len(p) >= 7
    THEN datetime(2000 + bcd_to_int(p[7]), bcd_to_int(p[6]), bcd_to_int(p[5]),
                  bcd_to_int(p[3]), bcd_to_int(p[2]), bcd_to_int(p[1]))
    ELSE None

(* Mutant: the time of day is read from the first three bytes *)
parse_time_legacy_dense(p) ==
    IF p # << >> /\ Len(p) >= 10
    THEN datetime(2000 + bcd_to_int(p[10]), bcd_to_int(p[9]), bcd_to_int(p[8]),
                  bcd_to_int(p[3]), bcd_to_int(p[2]), bcd_to_int(p[1]))
    ELSE None

(* ArvasLegacyParser.parse_time *)
parse_time_legacy(p) ==
    IF p # << >> /\ Len(p) >= 10
    THEN datetime(2000 + bcd_to_int(p[10]), bcd_to_int(p[9]), bcd_to_int(p[8]),
                  bcd_to_int(p[5]), bcd_to_int(p[3]), bcd_to_int(p[1]))
    ELSE None

(* TesmartParser.parse_time: six bytes from 0x482 of the assembled buffer *)
parse_time_tesmart(p) ==
    IF p # << >> /\ Len(p) >= 1160
    THEN datetime(2000 + bcd_to_int(p[1160]), bcd_to_int(p[1159]), bcd_to_int(p[1158]),
                  bcd_to_int(p[1157]), bcd_to_int(p[1156]), bcd_to_int(p[1155]))
    ELSE None

(* parse_time of the parser of variant v *)
parse_time(v, p) ==
    CASE v \in {"ARVAS_M1", "ARVAS_M"} -> parse_time_decimal(p)
      [] v = "ARVAS_LEGACY_1" -> parse_time_legacy_1(p)
      [] v = "ARVAS_LEGACY" -> parse_time_legacy(p)
      [] v = "TESMART" -> parse_time_tesmart(p)
      [] OTHER -> None

(* Mutant: a code that is not in the table gives 0 *)
get_tesmart_coeff_zero(comma_val, param_type) ==
    IF param_type = "energy" /\ comma_val \in 2..6
    THEN <<10, 100, 1000, 10000, 100000>>[comma_val - 1]
    ELSE IF param_type = "volume" /\ comma_val \in 3..5
    THEN <<10, 100, 1000>>[comma_val - 2]
    ELSE 0

(* TesmartParser.get_tesmart_coeff (the same table as                      *)
(* TEM104_Base_Client._get_tesmart_coeff): coeffs.get(param_type,          *)
(* {}).get(comma_val, 1)                                                   *)
get_tesmart_coeff(comma_val, param_type) ==
    IF param_type = "energy" /\ comma_val \in 2..6
    THEN <<10, 100, 1000, 10000, 100000>>[comma_val - 1]
    ELSE IF param_type = "volume" /\ comma_val \in 3..5
    THEN <<10, 100, 1000>>[comma_val - 2]
    ELSE 1

(* A value divided by a coefficient; None where the division raises *)
scaled(value, k) == IF k = 0 THEN None ELSE Some([value |-> value, div |-> k])

(* TEM104Data(protocol_type='TESMART') with every reading at its default *)
EmptyData(time, status) ==
    [time |-> time, energy_Q |-> None, mass_M1 |-> None, volume_V1 |-> None,
     volume_V2 |-> None, operating_time |-> None, temp_T1 |-> None, temp_T2 |-> None,
     flow_G1 |-> None, flow_G2 |-> None, device_status |-> status]

(* TesmartParser.parse_full_data *)
parse_full_data(fp) ==
    LET time == parse_time_tesmart(fp)
    IN  IF Len(fp) < 764
        THEN EmptyData(time, "PARSE_ERROR")
        ELSE LET k_v1 == get_tesmart_coeff(fp[763], "volume")
                 k_v2 == get_tesmart_coeff(fp[764], "volume")
                 k_q1 == get_tesmart_coeff(fp[763], "energy")
                 q  == scaled(parse_combined_value(fp, 888, 864), k_q1)
                 m1 == scaled(parse_combined_value(fp, 840, 816), k_v1)
                 v1 == scaled(parse_combined_value(fp, 792, 768), k_v1)
                 v2 == scaled(parse_combined_value(fp, 796, 772), k_v2)
             IN  IF q = None THEN EmptyData(time, "PARSE_ERROR")
                 ELSE IF m1 = None \/ v1 = None
                 THEN [EmptyData(time, "PARSE_ERROR") EXCEPT !.energy_Q = q]
                 ELSE IF v2 = None
                 THEN [EmptyData(time, "PARSE_ERROR") EXCEPT
                          !.energy_Q = q, !.mass_M1 = m1, !.volume_V1 = v1]
                 ELSE [time |-> time, energy_Q |-> q, mass_M1 |-> m1, volume_V1 |-> v1,
                       volume_V2 |-> v2,
                       operating_time |-> Some(safe_unpack_long(fp, 1028)),
                       temp_T1 |-> Some(safe_unpack_float(fp, 512)),
                       temp_T2 |-> Some(safe_unpack_float(fp, 516)),
                       flow_G1 |-> Some(safe_unpack_float(fp, 648)),
                       flow_G2 |-> Some(safe_unpack_float(fp, 652)),
                       device_status |-> "OK"]

(* Payloads handed to the parsers: blocks of one repeated byte *)
Fill(n, b) == [i \in 1..n |-> b]

BlockSamples == {Fill(n, b) : n \in {0, 3, 40, 255}, b \in {0, 65}}

BufferSamples == {Fill(n, b) : n \in {763, 764, 1040, 1275}, b \in {0, 3}}

(* Clock payloads: the fields ss, mm, hh, dd, MM, YY of a valid time (in   *)
(* decimal and in BCD) with one field replaced, laid out as each variant   *)
(* lays them out, the other bytes filled with g; and the same cut short    *)
DecBase == <<12, 34, 17, 5, 8, 25>>
BcdBase == <<18, 52, 23, 5, 8, 37>>
EdgeBytes == {0, 10, 13, 19, 24, 26, 32, 36, 50, 60, 96, 255}

TimeFields ==
    {DecBase, BcdBase}
        \cup {[b EXCEPT ![i] = e] : b \in {DecBase, BcdBase}, i \in 1..6, e \in EdgeBytes}

Layouts ==
    { [pos |-> <<1, 2, 3, 4, 5, 6>>, len |-> 6],
      [pos |-> <<1, 2, 3, 5, 6, 7>>, len |-> 7],
      [pos |-> <<1, 3, 5, 8, 9, 10>>, len |-> 10],
      [pos |-> <<1155, 1156, 1157, 1158, 1159, 1160>>, len |-> 1160] }

lay(L, f, g) ==
    [i \in 1..L.len |->
        IF \E k \in 1..6 : L.pos[k] = i THEN f[CHOOSE k \in 1..6 : L.pos[k] = i] ELSE g]

TimeSamples ==
    {lay(L, f, g) : L \in Layouts, f \in TimeFields, g \in {0, 255}}
        \cup {lay(L, f, 0) : L \in {[pos |-> K.pos, len |-> K.len - 1] : K \in Layouts},
                             f \in {DecBase, BcdBase}}

(* Single bytes, for the functions of one byte *)
ByteSamples == {<<b>> : b \in 0..255}

PayloadSamples == BlockSamples \cup BufferSamples \cup TimeSamples \cup ByteSamples

(* Parser specification: a parser of some variant is given a payload, or   *)
(* one of the functions of a byte is given the byte of a one-byte payload  *)
InitParse ==
    /\ address = 1
    /\ kind = "COM"
    /\ protocol_type = "None"
    /\ is_open = FALSE
    /\ args = None
    /\ packet = << >>
    /\ builder = "none"
    /\ ExchIdle
    /\ OrchIdle
    /\ ExtraIdle
    /\ called = << >>
    /\ parser \in ParserVariants
    /\ pdata \in PayloadSamples
    /\ parsed = None

ParseTotals ==
    /\ called' = <<"parse_totals">>
    /\ parsed' = Some(parse_totals(parser, pdata))
    /\ UNCHANGED <<client, build, exch, orch, extra, parser, pdata>>

ParseInstantaneous ==
    /\ called' = <<"parse_instantaneous">>
    /\ parsed' = Some(parse_instantaneous(parser, pdata))
    /\ UNCHANGED <<client, build, exch, orch, extra, parser, pdata>>

ParseTime ==
    /\ called' = <<"parse_time">>
    /\ parsed' = parse_time(parser, pdata)
    /\ UNCHANGED <<client, build, exch, orch, extra, parser, pdata>>

ParseFullData ==
    /\ parser = "TESMART"
    /\ called' = <<"parse_full_data">>
    /\ parsed' = Some(parse_full_data(pdata))
    /\ UNCHANGED <<client, build, exch, orch, extra, parser, pdata>>

BcdToInt ==
    /\ Len(pdata) = 1
    /\ called' = <<"bcd_to_int">>
    /\ parsed' = Some(bcd_to_int(pdata[1]))
    /\ UNCHANGED <<client, build, exch, orch, extra, parser, pdata>>

GetTesmartCoeff ==
    /\ Len(pdata) = 1
    /\ \E t \in {"energy", "volume", "mass"} :
        /\ called' = <<"get_tesmart_coeff", t>>
        /\ parsed' = Some(get_tesmart_coeff(pdata[1], t))
    /\ UNCHANGED <<client, build, exch, orch, extra, parser, pdata>>

NextParse ==
    \/ ParseTotals
    \/ ParseInstantaneous
    \/ ParseTime
    \/ ParseFullData
    \/ BcdToInt
    \/ GetTesmartCoeff

SpecParse == InitParse /\ [][NextParse]_vars

-----------------------------------------------------------------------------
(* Client factory of core_library/factory.py. Keyword arguments are a      *)
(* function from keyword names to values; a constructor call gives the     *)
(* fields of the new client, or None where Python raises TypeError.        *)

(* TEM104ClientFactory._client_types *)
client_types == [COM |-> "TEM104_Serial_Client", TCP |-> "TEM104_TCP_Client"]

(* kwargs without the keywords in names *)
Without(kw, names) == [k \in DOMAIN kw \ names |-> kw[k]]

(* kwargs[k] = v *)
SetKw(kw, k, v) == [x \in DOMAIN kw \cup {k} |-> IF x = k THEN v ELSE kw[x]]

(* kwargs.get(k, default) *)
GetKw(kw, k, default) == IF k \in DOMAIN kw THEN kw[k] ELSE default

(* TEM104_Base_Client.__init__(self, address, protocol=None) called as     *)
(* super().__init__(address, **kwargs): any keyword but protocol is a      *)
(* TypeError                                                               *)
Base_Client_init(addr, kw) ==
    IF DOMAIN kw \subseteq {"protocol"}
    THEN Some([address |-> addr, protocol_type |-> GetKw(kw, "protocol", "None")])
    ELSE None

(* TEM104_Serial_Client(address=address, **kw): port and baudrate bind to  *)
(* the named parameters, the other keywords to **kwargs                    *)
Serial_Client_init(addr, kw) ==
    IF ~({"port", "baudrate"} \subseteq DOMAIN kw) THEN None
    ELSE LET rest == Without(kw, {"port", "baudrate"})
             base == Base_Client_init(addr, rest)
         IN  IF base = None THEN None
             ELSE Some([class |-> "TEM104_Serial_Client", address |-> base[1].address,
                        protocol_type |-> base[1].protocol_type,
                        port |-> kw.port, baudrate |-> kw.baudrate,
                        timeout |-> GetKw(rest, "timeout", 2)])

(* TEM104_TCP_Client(address=address, **kw) *)
TCP_Client_init(addr, kw) ==
    IF ~({"host", "port"} \subseteq DOMAIN kw) THEN None
    ELSE LET rest == Without(kw, {"host", "port"})
             base == Base_Client_init(addr, rest)
         IN  IF base = None THEN None
             ELSE Some([class |-> "TEM104_TCP_Client", address |-> base[1].address,
                        protocol_type |-> base[1].protocol_type,
                        host |-> kw.host, port |-> kw.port,
                        timeout |-> GetKw(rest, "timeout", 5)])

(* Mutant: the TCP port has no default *)
create_client_noport(connection_type, addr, protocol, kw) ==
    IF connection_type \notin DOMAIN client_types
    THEN [raised |-> "ValueError", class |-> "none", client |-> None]
    ELSE IF connection_type = "COM" /\ "port" \notin DOMAIN kw
    THEN [raised |-> "TypeError", class |-> "none", client |-> None]
    ELSE IF connection_type = "TCP" /\ "host" \notin DOMAIN kw
    THEN [raised |-> "TypeError", class |-> "none", client |-> None]
    ELSE LET kw1 == IF connection_type = "COM" /\ "baudrate" \notin DOMAIN kw
                    THEN SetKw(kw, "baudrate", 9600)
                    ELSE kw
             kw2 == IF protocol # "None" THEN SetKw(kw1, "protocol", protocol) ELSE kw1
             made == IF connection_type = "COM" THEN Serial_Client_init(addr, kw2)
                     ELSE TCP_Client_init(addr, kw2)
         IN  [raised |-> IF made = None THEN "TypeError" ELSE "none",
              class |-> client_types[connection_type], client |-> made]

(* TEM104ClientFactory.create_client(connection_type, address, protocol,   *)
(* **kwargs): the exception raised, the class called and the client        *)
create_client(connection_type, addr, protocol, kw) ==
    IF connection_type \notin DOMAIN client_types
    THEN [raised |-> "ValueError", class |-> "none", client |-> None]
    ELSE IF connection_type = "COM" /\ "port" \notin DOMAIN kw
    THEN [raised |-> "TypeError", class |-> "none", client |-> None]
    ELSE IF connection_type = "TCP" /\ "host" \notin DOMAIN kw
    THEN [raised |-> "TypeError", class |-> "none", client |-> None]
    ELSE LET kw1 == IF connection_type = "COM" /\ "baudrate" \notin DOMAIN kw
                    THEN SetKw(kw, "baudrate", 9600)
                    ELSE IF connection_type = "TCP" /\ "port" \notin DOMAIN kw
                    THEN SetKw(kw, "port", 5009)
                    ELSE kw
             kw2 == IF protocol # "None" THEN SetKw(kw1, "protocol", protocol) ELSE kw1
             made == IF connection_type = "COM" THEN Serial_Client_init(addr, kw2)
                     ELSE TCP_Client_init(addr, kw2)
         IN  [raised |-> IF made = None THEN "TypeError" ELSE "none",
              class |-> client_types[connection_type], client |-> made]

(* The calls drawn: connection types (one not registered), keyword sets    *)
(* over port, baudrate, host and timeout, with and without a protocol      *)
ConnectionTypes == {"COM", "TCP", "USB"}
KwNames == {"port", "baudrate", "host", "timeout"}

KwChoices(connection_type) ==
    [port : IF connection_type = "TCP" THEN {4001} ELSE {"COM3"},
     baudrate : {19200}, host : {"10.0.0.5"}, timeout : {1, 3}]

Kwargs(connection_type) ==
    {[k \in D |-> r[k]] : r \in KwChoices(connection_type), D \in SUBSET KwNames}

InitFactory ==
    /\ address = 1
    /\ kind = "COM"
    /\ protocol_type = "None"
    /\ is_open = FALSE
    /\ args = None
    /\ packet = << >>
    /\ builder = "none"
    /\ ExchIdle
    /\ OrchIdle
    /\ ParseIdle
    /\ ExtraIdle

(* One call of TEM104ClientFactory.create_client *)
CreateClient ==
    /\ fargs = None
    /\ \E ct \in ConnectionTypes, addr \in {1, 2}, protocol \in {"None", "ARVAS_M"} :
        \E kw \in Kwargs(ct) :
            LET r == create_client(ct, addr, protocol, kw)
            IN  /\ fargs' = Some([connection_type |-> ct, address |-> addr,
                                  protocol |-> protocol, kwargs |-> kw])
                /\ fraised' = r.raised
                /\ fclass' = r.class
                /\ fclient' = r.client
    /\ UNCHANGED <<client, build, exch, orch, parse, drv_protocol, pool, session, callers>>

NextFactory == CreateClient

SpecFactory == InitFactory /\ [][NextFactory]_vars

-----------------------------------------------------------------------------
(* TemDriver._send_and_receive of core_library/Улучшенный_TemDriver.py:    *)
(* one read of at most 262 bytes, then the checks on what it returned      *)

DriverReadLen == 262

(* self.ser.read(n): the bytes that arrived, at most n of them *)
ser_read(stream, n) == IF Len(stream) <= n THEN stream ELSE Take(stream, n)

(* The checks and the strip of TemDriver._send_and_receive on the bytes    *)
(* the read returned                                                       *)
driver_validate(response_bytes) ==
    IF response_bytes = << >> THEN None
    ELSE IF Len(response_bytes) < 6 THEN None
    ELSE IF response_bytes[1] # 170 THEN None
    ELSE IF calculate_checksum(Take(response_bytes, Len(response_bytes) - 1))
                # response_bytes[Len(response_bytes)] THEN None
    ELSE LET length == response_bytes[6]
             data == SubSeq(response_bytes, 7, Len(response_bytes) - 1)
         IN  IF Len(data) # length THEN None ELSE Some(data)

(* A 6-byte answer whose first five bytes sum to 0xFF modulo 256 *)
SixByteFrame == <<170, 1, 254, 86, 0, 0>>

DriverStreams(group, cmd) == Streams(group, cmd) \cup {SixByteFrame}

InitDriver ==
    /\ address \in FrameAddrs
    /\ kind = "TemDriver"
    /\ protocol_type = "None"
    /\ is_open \in BOOLEAN
    /\ \E a \in ExRequests :
        /\ args = Some(a)
        /\ packet = create_request(address, a.group, a.cmd, a.data)
    /\ builder = "_create_request"
    /\ ExchIdle
    /\ OrchIdle
    /\ ParseIdle
    /\ ExtraIdle

(* TemDriver._send_and_receive(request_packet): the port test, the reset   *)
(* of the input buffer, the write, the read and the checks; a              *)
(* SerialException gives None                                              *)
DriverSendAndReceive ==
    /\ xpc = "idle"
    /\ builder = "_create_request"
    /\ xpc' = "done"
    /\ raised' = "none"
    /\ \/ /\ ~is_open
          /\ ended' = "closed"
          /\ result' = None
          /\ UNCHANGED <<wire, rxbuf, consumed>>
       \/ /\ is_open
          /\ wire' = Append(wire, packet)
          /\ \E stream \in DriverStreams(packet[4], packet[5]) :
                LET response_bytes == ser_read(stream, DriverReadLen)
                IN  /\ rxbuf' = stream
                    /\ \/ /\ ended' = "ok"
                          /\ consumed' = Len(response_bytes)
                          /\ result' = driver_validate(response_bytes)
                       \/ /\ ended' = "error"
                          /\ consumed' = 0
                          /\ result' = None
    /\ UNCHANGED <<client, build, parse, extra, orch, header, body>>

NextDriver == DriverSendAndReceive

SpecDriver == InitDriver /\ [][NextDriver]_vars

-----------------------------------------------------------------------------
(* The TemDriver callers: main of Улучшенный_TemDriver.py and              *)
(* UniversalTem104Client.read_all_data of Интеграция_TemDriver.py:         *)
(* identification, the choice of the protocol class, then the clock, the   *)
(* instantaneous and the totals read of that class                         *)

(* The data of the three requests of each protocol class *)
protocol_requests(class) ==
    IF class = "Tem104Protocol"
    THEN [read_datetime |-> <<16, 10>>, read_current_values |-> <<34, 0, 116>>,
          read_total_values |-> <<2, 0, 255>>]
    ELSE [read_datetime |-> <<0, 7>>, read_current_values |-> <<64, 0, 116>>,
          read_total_values |-> <<1, 128, 255>>]

(* `if 'M' in device_name:` Tem104MProtocol, else Tem104Protocol *)
choose_protocol(name) ==
    IF Contains(name, <<77>>) THEN "Tem104MProtocol" ELSE "Tem104Protocol"

(* One TemDriver exchange of a caller: the request and what came back *)
DriverExchange(pkt, answers) ==
    \/ /\ ~is_open
       /\ result' = None
       /\ UNCHANGED <<wire, rxbuf>>
    \/ /\ is_open
       /\ wire' = Append(wire, pkt)
       /\ \E stream \in answers :
            /\ rxbuf' = stream
            /\ result' = driver_validate(ser_read(stream, DriverReadLen))

(* Answers of the device to a read of a protocol class *)
DriverReadAnswers(group, cmd) ==
    {response_frame(address, group, cmd, Zeros(10)), << >>}

InitDriverPoll ==
    /\ address \in FrameAddrs
    /\ kind = "TemDriver"
    /\ protocol_type = "None"
    /\ is_open \in BOOLEAN
    /\ args = None
    /\ packet = << >>
    /\ builder = "none"
    /\ ExchIdle
    /\ pc = "identify"
    /\ outcome = "none"
    /\ data_keys = {}
    /\ idpayload = None
    /\ detected = "unrun"
    /\ full_payload = << >>
    /\ win = 0
    /\ ncalls = 0
    /\ ParseIdle
    /\ ExtraIdle

(* device_name = identify_device(address) and `if not device_name: return` *)
DriverIdentify ==
    /\ pc = "identify"
    /\ DriverExchange(create_request(address, 0, 0, << >>), IdentifyAnswers(Tokens))
    /\ idpayload' = result'
    /\ pc' = IF result' # None /\ device_name_of(result'[1]) # << >> THEN "select" ELSE "idle"
    /\ UNCHANGED <<client, build, parse, extra, xpc, header, body, consumed, ended, raised,
                   outcome, data_keys, detected, full_payload, win, ncalls>>

(* The choice of the protocol class *)
SelectProtocol ==
    /\ pc = "select"
    /\ drv_protocol' = choose_protocol(device_name_of(idpayload[1]))
    /\ pc' = "read_datetime"
    /\ UNCHANGED <<client, build, parse, factory, pool, session, callers, exch, outcome, data_keys, idpayload,
                   detected, full_payload, win, ncalls>>

(* One read of the chosen class *)
DriverRead(group, cmd, name, next) ==
    /\ DriverExchange(create_request(address, group, cmd, protocol_requests(drv_protocol)[name]),
                      DriverReadAnswers(group, cmd))
    /\ pc' = next
    /\ UNCHANGED <<client, build, parse, extra, xpc, header, body, consumed, ended, raised,
                   outcome, data_keys, idpayload, detected, full_payload, win, ncalls>>

(* protocol.read_datetime() *)
DriverReadDatetime ==
    /\ pc = "read_datetime"
    /\ DriverRead(15, 2, "read_datetime", "read_current_values")

(* protocol.read_current_values() *)
DriverReadCurrent ==
    /\ pc = "read_current_values"
    /\ DriverRead(12, 1, "read_current_values", "read_total_values")

(* protocol.read_total_values() *)
DriverReadTotal ==
    /\ pc = "read_total_values"
    /\ DriverRead(15, 1, "read_total_values", "idle")

NextDriverPoll ==
    \/ DriverIdentify
    \/ SelectProtocol
    \/ DriverReadDatetime
    \/ DriverReadCurrent
    \/ DriverReadTotal

SpecDriverPoll == InitDriverPoll /\ [][NextDriverPoll]_vars

-----------------------------------------------------------------------------
(* The TCP exchange of both TCP clients, recv by recv: the client of       *)
(* core_library/test104.py (kind "TCP") and the client of masscheck.py     *)
(* (kind "MASSCHECK_TCP"). A recv of at most k bytes returns any non-empty *)
(* prefix, of at most k bytes, of what the stream still holds.             *)

(* masscheck: a failed read returns None and leaves the socket as it is *)
FailMass(em) ==
    /\ result' = None
    /\ ended' = em
    /\ xpc' = "done"
    /\ UNCHANGED <<client, build, parse, extra, orch, wire, rxbuf, header, body, consumed,
                   raised>>

(* masscheck: header = self.sock.recv(6) and the two tests on it *)
RecvHeaderMass ==
    /\ kind = "MASSCHECK_TCP"
    /\ xpc = "header"
    /\ \/ /\ rxbuf # << >>
          /\ \E n \in 1..Min(6, Len(rxbuf)) :
                /\ header' = Take(rxbuf, n)
                /\ rxbuf' = Drop(rxbuf, n)
                /\ consumed' = consumed + n
                /\ IF n < 6
                   THEN /\ result' = None
                        /\ ended' = "short"
                        /\ xpc' = "done"
                   ELSE IF header'[1] # RESPONSE_START_BYTE \/ header'[2] # address
                   THEN /\ result' = None
                        /\ ended' = "ok"
                        /\ xpc' = "done"
                   ELSE /\ xpc' = "body"
                        /\ UNCHANGED <<result, ended>>
          /\ UNCHANGED <<client, build, parse, extra, orch, wire, body, raised>>
       \/ /\ rxbuf = << >>
          /\ \E em \in {"eof", "timeout", "error"} : FailMass(em)

(* masscheck: one recv(bytes_to_read - len(body)) of the body loop, and,   *)
(* when it completes the frame, the sum test and the return                *)
RecvBodyMass ==
    /\ kind = "MASSCHECK_TCP"
    /\ xpc = "body"
    /\ \/ /\ rxbuf # << >>
          /\ \E n \in 1..Min(header[6] + 1 - Len(body), Len(rxbuf)) :
                /\ body' = body \o Take(rxbuf, n)
                /\ rxbuf' = Drop(rxbuf, n)
                /\ consumed' = consumed + n
                /\ IF Len(body) + n < header[6] + 1
                   THEN UNCHANGED <<xpc, ended, result>>
                   ELSE /\ xpc' = "done"
                        /\ ended' = "ok"
                        /\ result' = IF SumSeq(header \o body') % 256 # 255 THEN None
                                     ELSE Some(SubSeq(header \o body', 7,
                                                      Len(header \o body') - 1))
          /\ UNCHANGED <<client, build, parse, extra, orch, wire, header, raised>>
       \/ /\ rxbuf = << >>
          /\ \E em \in {"eof", "timeout", "error"} : FailMass(em)

InitTcpExchange ==
    /\ address \in FrameAddrs
    /\ kind \in {"TCP", "MASSCHECK_TCP"}
    /\ protocol_type = "None"
    /\ is_open \in BOOLEAN
    /\ \E a \in ExRequests :
        /\ args = Some(a)
        /\ packet = create_packet(address, a.group, a.cmd, a.data)
    /\ builder = "_create_packet"
    /\ wire = << >>
    /\ rxbuf \in StaleSamples
    /\ xpc = "idle"
    /\ header = << >>
    /\ body = << >>
    /\ consumed = 0
    /\ ended = "none"
    /\ result = None
    /\ raised = "none"
    /\ OrchIdle
    /\ ParseIdle
    /\ ExtraIdle

NextTcpExchange ==
    \/ SendRequest
    \/ RecvHeaderTCP
    \/ RecvBodyTCP
    \/ RecvHeaderMass
    \/ RecvBodyMass

SpecTcpExchange == InitTcpExchange /\ [][NextTcpExchange]_vars

-----------------------------------------------------------------------------
(* ConnectionPoolManager of core_library/factory.py. A dict is the         *)
(* sequence of its entries in insertion order; the state of a manager is   *)
(* the record of its two dicts, of the number of clients it has created    *)
(* and of the clients disconnect() was called on.                          *)

Keys(d) == {d[i].key : i \in 1..Len(d)}
Values(d) == {d[i].value : i \in 1..Len(d)}

(* d[k] *)
Lookup(d, k) == d[CHOOSE i \in 1..Len(d) : d[i].key = k].value

(* d[k] = v *)
DictSet(d, k, v) ==
    IF k \in Keys(d)
    THEN [i \in 1..Len(d) |-> IF d[i].key = k THEN [key |-> k, value |-> v] ELSE d[i]]
    ELSE Append(d, [key |-> k, value |-> v])

(* del d[k] *)
DictDel(d, k) ==
    LET keep(e) == e.key # k
    IN  SelectSeq(d, keep)

(* min(self._connection_usage, key=self._connection_usage.get): the first  *)
(* key, in the order of the dict, whose count is the least                 *)
least_used_id(usage) ==
    LET i == CHOOSE j \in 1..Len(usage) :
                /\ \A k \in 1..Len(usage) : usage[j].value <= usage[k].value
                /\ \A k \in 1..(j - 1) : usage[k].value > usage[j].value
    IN  usage[i].key

(* Mutant: the client is dropped from the pool without disconnect() *)
release_connection_open(p, connection_id) ==
    IF connection_id \in Keys(p.connections)
    THEN [p EXCEPT !.connections = DictDel(@, connection_id),
                   !.connection_usage = DictDel(@, connection_id)]
    ELSE p

(* ConnectionPoolManager.release_connection *)
release_connection(p, connection_id) ==
    IF connection_id \in Keys(p.connections)
    THEN [p EXCEPT !.disconnected = @ \cup {Lookup(p.connections, connection_id)},
                   !.connections = DictDel(@, connection_id),
                   !.connection_usage = DictDel(@, connection_id)]
    ELSE p

(* ConnectionPoolManager.release_all: release_connection for each key *)
RECURSIVE release_each(_, _)
release_each(p, ids) ==
    IF ids = << >> THEN p
    ELSE release_each(release_connection(p, Head(ids)), Tail(ids))

release_all(p) == release_each(p, [i \in 1..Len(p.connections) |-> p.connections[i].key])

(* ConnectionPoolManager.get_connection: the new state, the client         *)
(* returned and the exception raised                                       *)
get_connection(p, maxc, connection_id, connection_type, kw) ==
    IF connection_id \in Keys(p.connections)
    THEN [pool |-> [p EXCEPT !.connection_usage =
                        DictSet(@, connection_id, Lookup(@, connection_id) + 1)],
          client |-> Some(Lookup(p.connections, connection_id)), raised |-> "none"]
    ELSE LET p1 == IF Len(p.connections) >= maxc
                   THEN release_connection(p, least_used_id(p.connection_usage))
                   ELSE p
             r == create_client(connection_type, 1, "None", kw)
         IN  IF r.raised # "none"
             THEN [pool |-> p1, client |-> None, raised |-> r.raised]
             ELSE [pool |-> [p1 EXCEPT
                        !.made = @ + 1,
                        !.connections = DictSet(@, connection_id, p1.made + 1),
                        !.connection_usage = DictSet(@, connection_id, 1)],
                   client |-> Some(p1.made + 1), raised |-> "none"]

(* The manager as a record, and the assignment of a new state *)
PoolState ==
    [connections |-> connections, connection_usage |-> connection_usage,
     made |-> pool_made, disconnected |-> disconnected]

SetPool(p) ==
    /\ connections' = p.connections
    /\ connection_usage' = p.connection_usage
    /\ pool_made' = p.made
    /\ disconnected' = p.disconnected

(* Bounds of the pool specification: clients created, count of one entry *)
MaxPoolClients == 3
MaxUsage == 3

ConnectionIds == {"a", "b", "c"}
PoolSizes == {1, 2}

(* The keywords of a get_connection call: a serial port, which makes a COM *)
(* client and fails for the other connection types                         *)
PoolKwargs == [port |-> "COM3"]

InitPool ==
    /\ address = 1
    /\ kind = "COM"
    /\ protocol_type = "None"
    /\ is_open = FALSE
    /\ args = None
    /\ packet = << >>
    /\ builder = "none"
    /\ ExchIdle
    /\ OrchIdle
    /\ ParseIdle
    /\ FactoryIdle
    /\ drv_protocol = "none"
    /\ SessionIdle
    /\ CallerIdle
    /\ max_connections \in PoolSizes
    /\ connections = << >>
    /\ connection_usage = << >>
    /\ pool_made = 0
    /\ disconnected = {}
    /\ pool_ret = None

(* get_connection(connection_id, connection_type, **kwargs) *)
GetConnection ==
    /\ pool_made < MaxPoolClients
    /\ \A i \in 1..Len(connection_usage) : connection_usage[i].value < MaxUsage
    /\ \E id \in ConnectionIds, ct \in ConnectionTypes :
        LET r == get_connection(PoolState, max_connections, id, ct, PoolKwargs)
        IN  /\ SetPool(r.pool)
            /\ pool_ret' = Some([op |-> "get_connection", id |-> id,
                                 client |-> r.client, raised |-> r.raised])
    /\ UNCHANGED <<client, build, exch, orch, parse, factory, drv_protocol, session, callers,
                   max_connections>>

(* release_connection(connection_id) *)
ReleaseConnection ==
    /\ \E id \in ConnectionIds :
        /\ SetPool(release_connection(PoolState, id))
        /\ pool_ret' = Some([op |-> "release_connection", id |-> id,
                             client |-> None, raised |-> "none"])
    /\ UNCHANGED <<client, build, exch, orch, parse, factory, drv_protocol, session, callers,
                   max_connections>>

(* release_all() *)
ReleaseAll ==
    /\ SetPool(release_all(PoolState))
    /\ pool_ret' = Some([op |-> "release_all", id |-> "", client |-> None,
                         raised |-> "none"])
    /\ UNCHANGED <<client, build, exch, orch, parse, factory, drv_protocol, session, callers,
                   max_connections>>

NextPool == GetConnection \/ ReleaseConnection \/ ReleaseAll

SpecPool == InitPool /\ [][NextPool]_vars

-----------------------------------------------------------------------------
(* The TCP client's session: connect, disconnect and _send_and_receive    *)
(* called in any order on one TEM104_TCP_Client                            *)

(* The socket field and the counted socket calls, as one value *)
SessionState ==
    [sock |-> is_open, created |-> sock_created, connected |-> sock_connected,
     closed |-> sock_closed, raised |-> "none"]

SetSession(s) ==
    /\ is_open' = s.sock
    /\ sock_created' = s.created
    /\ sock_connected' = s.connected
    /\ sock_closed' = s.closed

(* Mutant: connect opens a socket whether or not one is already held *)
tcp_connect_again(s, ok) ==
    IF ok
    THEN [s EXCEPT !.sock = TRUE, !.created = @ + 1, !.connected = @ + 1]
    ELSE [s EXCEPT !.sock = FALSE, !.created = @ + 1, !.raised = "ConnectionError"]

(* connect(): returns at once when self.sock is set; otherwise creates a  *)
(* socket and connects it (ok), or on socket.error sets self.sock = None  *)
(* and raises ConnectionError                                              *)
tcp_connect(s, ok) ==
    IF s.sock THEN s
    ELSE IF ok
    THEN [s EXCEPT !.sock = TRUE, !.created = @ + 1, !.connected = @ + 1]
    ELSE [s EXCEPT !.sock = FALSE, !.created = @ + 1, !.raised = "ConnectionError"]

(* disconnect(): closes self.sock and sets it to None, when it is set *)
tcp_disconnect(s) ==
    IF s.sock THEN [s EXCEPT !.sock = FALSE, !.closed = @ + 1] ELSE s

(* Bounds on the sockets one run creates and on the requests it writes *)
MaxSockets == 2
MaxWrites == 3

(* What the peer sends after a request: nothing, the head of a frame, or  *)
(* a whole frame                                                           *)
SessionAnswers ==
    LET f == response_frame(address, CMD_GROUP_CONNECTION, CMD_IDENTIFY, TEM_104)
    IN  {<< >>, Take(f, 4), f}

InitTcpSession ==
    /\ address = 1
    /\ kind = "TCP"
    /\ protocol_type = "None"
    /\ is_open = FALSE
    /\ args = Some(IdentifyArgs)
    /\ packet = create_packet(address, IdentifyArgs.group, IdentifyArgs.cmd,
                              IdentifyArgs.data)
    /\ builder = "_create_packet"
    /\ ExchIdle
    /\ OrchIdle
    /\ ParseIdle
    /\ ExtraIdle

TcpConnect ==
    /\ is_open \/ sock_created < MaxSockets
    /\ \E ok \in BOOLEAN :
        LET s == tcp_connect(SessionState, ok)
        IN  /\ SetSession(s)
            /\ raised' = s.raised
            /\ rxbuf' = IF is_open THEN rxbuf ELSE << >>
    /\ last_call' = "connect"
    /\ UNCHANGED <<address, kind, protocol_type, build, orch, parse, factory, drv_protocol,
                   pool, callers, wire, xpc, header, body, consumed, ended, result>>

TcpDisconnect ==
    /\ SetSession(tcp_disconnect(SessionState))
    /\ rxbuf' = << >>
    /\ last_call' = "disconnect"
    /\ UNCHANGED <<address, kind, protocol_type, build, orch, parse, factory, drv_protocol,
                   pool, callers, wire, xpc, header, body, consumed, ended, result,
                   raised>>

(* _send_and_receive(packet); a socket.error inside it calls disconnect() *)
TcpExchange ==
    /\ ~is_open \/ Len(wire) < MaxWrites
    /\ \E answer \in SessionAnswers, em \in EndModes(kind) :
        Exchange(packet, answer, em)
    /\ sock_closed' = IF is_open /\ ~is_open' THEN sock_closed + 1 ELSE sock_closed
    /\ last_call' = "exchange"
    /\ UNCHANGED <<address, kind, protocol_type, build, orch, parse, factory, drv_protocol,
                   pool, callers, sock_created, sock_connected, xpc, header, body,
                   consumed>>

NextTcpSession == TcpConnect \/ TcpDisconnect \/ TcpExchange

SpecTcpSession == InitTcpSession /\ [][NextTcpSession]_vars

-----------------------------------------------------------------------------
(* The programs that open a client, poll and release it: main of           *)
(* core_library/test104.py, the device loop of masscheck.py and            *)
(* poll_device of the two GUIs. One statement of the caller is one step;   *)
(* is_open is the socket field of the caller's current client, and the     *)
(* session counters count the connections of every client it has made      *)

Callers == {"test104.main", "masscheck", "tem104_gui", "gui_tools"}

(* The callers whose disconnect() is the last statement of the try body *)
DisconnectInTry == {"tem104_gui", "gui_tools"}

(* The callers whose finally clause calls client.disconnect() *)
DisconnectInFinally == {"test104.main", "masscheck"}

(* The keys each caller formats with a float format after the poll; main   *)
(* prints the items as they are and tem104_gui prints nothing              *)
FormattedKeys(c) ==
    IF c = "masscheck" THEN {"Q", "M1", "V1", "V2", "T1", "T2", "G1", "G2"}
    ELSE IF c = "gui_tools" THEN {"Q", "M1", "T1", "T2", "G1"}
    ELSE {}

(* The records a poll returns: every key, or one key missing *)
AllKeys == {"Q", "M1", "V1", "V2", "T1", "T2", "G1", "G2", "T_nar"}
PollResults == {AllKeys, AllKeys \ {"G1"}}

InitCallers ==
    /\ address = 1
    /\ kind = "TCP"
    /\ protocol_type = "None"
    /\ is_open = FALSE
    /\ args = None
    /\ packet = << >>
    /\ builder = "none"
    /\ ExchIdle
    /\ OrchIdle
    /\ ParseIdle
    /\ FactoryIdle
    /\ drv_protocol = "none"
    /\ PoolIdle
    /\ SessionIdle
    /\ caller \in Callers
    /\ cpc = "start"

(* The inputs are converted and the client is constructed; a conversion    *)
(* that raises ValueError leaves the caller without a client               *)
CallerConstruct ==
    /\ cpc = "start"
    /\ \/ /\ last_call' = "__init__"
          /\ cpc' = "constructed"
          /\ raised' = "none"
       \/ /\ caller # "masscheck"
          /\ last_call' = "none"
          /\ cpc' = "except"
          /\ raised' = "ValueError"
    /\ is_open' = FALSE
    /\ UNCHANGED <<address, kind, protocol_type, build, orch, parse, factory, drv_protocol,
                   pool, caller, sock_created, sock_connected, sock_closed, wire, rxbuf,
                   xpc, header, body, consumed, ended, result>>

(* client.connect() *)
CallerConnect ==
    /\ cpc = "constructed"
    /\ \E ok \in BOOLEAN :
        LET s == tcp_connect(SessionState, ok)
        IN  /\ SetSession(s)
            /\ raised' = s.raised
            /\ cpc' = IF s.raised = "none" THEN "connected" ELSE "except"
    /\ last_call' = "connect"
    /\ UNCHANGED <<address, kind, protocol_type, build, orch, parse, factory, drv_protocol,
                   pool, caller, wire, rxbuf, xpc, header, body, consumed, ended, result>>

(* client.read_all_data() (get_specific_data in masscheck.py): a record is *)
(* returned, or RuntimeError is raised because the device was not          *)
(* identified; the socket stays open in both cases                         *)
CallerPoll ==
    /\ cpc = "connected"
    /\ \/ /\ data_keys' \in PollResults
          /\ outcome' = "record"
          /\ raised' = "none"
          /\ cpc' = "polled"
       \/ /\ data_keys' = {}
          /\ outcome' = "RuntimeError"
          /\ raised' = "RuntimeError"
          /\ cpc' = "except"
    /\ last_call' = "read_all_data"
    /\ UNCHANGED <<client, build, parse, factory, drv_protocol, pool, caller, sock_created,
                   sock_connected, sock_closed, wire, rxbuf, xpc, header, body, consumed,
                   ended, result, pc, idpayload, detected, full_payload, win, ncalls>>

(* The prints after the poll: format(data.get(k, '---'), '.3f') raises     *)
(* ValueError for a key the record does not have                           *)
CallerPrint ==
    /\ cpc = "polled"
    /\ IF FormattedKeys(caller) \subseteq data_keys
       THEN cpc' = "printed" /\ raised' = "none"
       ELSE cpc' = "except" /\ raised' = "ValueError"
    /\ UNCHANGED <<client, build, orch, parse, factory, drv_protocol, pool, session, caller,
                   wire, rxbuf, xpc, header, body, consumed, ended, result>>

(* The end of the try body: client.disconnect() in the GUIs, nothing in    *)
(* the other callers                                                       *)
CallerTryEnd ==
    /\ cpc = "printed"
    /\ IF caller \in DisconnectInTry
       THEN SetSession(tcp_disconnect(SessionState)) /\ last_call' = "disconnect"
       ELSE UNCHANGED <<is_open, session>>
    /\ cpc' = "finally"
    /\ UNCHANGED <<address, kind, protocol_type, build, orch, parse, factory, drv_protocol,
                   pool, caller, exch>>

(* An except clause: every caller catches Exception and prints a message *)
CallerExcept ==
    /\ cpc = "except"
    /\ cpc' = "finally"
    /\ UNCHANGED <<client, build, exch, orch, parse, factory, drv_protocol, pool, session,
                   caller>>

(* The finally clause: `if client: client.disconnect()` in main and in     *)
(* masscheck.py; the GUIs restore sys.stdout and the button                *)
CallerFinally ==
    /\ cpc = "finally"
    /\ IF caller \in DisconnectInFinally /\ last_call # "none"
       THEN SetSession(tcp_disconnect(SessionState)) /\ last_call' = "disconnect"
       ELSE UNCHANGED <<is_open, session>>
    /\ cpc' = "end"
    /\ UNCHANGED <<address, kind, protocol_type, build, orch, parse, factory, drv_protocol,
                   pool, caller, exch>>

(* The next device of the masscheck loop, or the next press of the poll    *)
(* button of a GUI; main runs once                                         *)
CallerAgain ==
    /\ cpc = "end"
    /\ caller # "test104.main"
    /\ sock_created < MaxSockets
    /\ cpc' = "start"
    /\ last_call' = "none"
    /\ UNCHANGED <<client, build, exch, orch, parse, factory, drv_protocol, pool, caller,
                   sock_created, sock_connected, sock_closed>>

(* A caller that has started runs to its end *)
CallerRuns ==
    \/ CallerConstruct
    \/ CallerConnect
    \/ CallerPoll
    \/ CallerPrint
    \/ CallerTryEnd
    \/ CallerExcept
    \/ CallerFinally

NextCallers == CallerRuns \/ CallerAgain

(* Every statement of a caller terminates (the socket calls have a         *)
(* timeout), so a caller that can take a step takes it; whether there is   *)
(* a next device or a next press of the button is up to the environment    *)
SpecCallers == InitCallers /\ [][NextCallers]_vars /\ WF_vars(CallerRuns)

-----------------------------------------------------------------------------
(* Claims on the request builders, checked under SpecCodec *)

Built == builder \in {"_create_packet", "_create_request"}

(* C1: for every address in 0..255 and every group, command and parameter  *)
(* string, the frame returned by _create_packet and by _create_request is  *)
(* built (no exception), its byte sum is congruent to 0xFF modulo 256, its *)
(* byte 0 is 0x55 and its byte 5 is the number of parameter bytes.         *)
C1_RequestFrameChecksum ==
    (IsByte(address) /\ builder # "none") =>
        /\ Built
        /\ SumSeq(packet) % 256 = 255
        /\ packet[1] = 85
        /\ packet[6] = Len(args[1].data)
        /\ Len(packet) = 7 + Len(args[1].data)

C1_Witness ==
    /\ builder = "_create_request"
    /\ address = 248
    /\ Len(args[1].data) = MaxParamLen

(* C2 as stated: for address 1 the Identify request is 55 01 FE 00 00 00   *)
(* A7 and the ReadFlash request at 0x0180, length 0xFF, is                 *)
(* 55 01 FE 0F 01 03 01 80 FF 72.                                          *)
C2_SeedBytesAsStated ==
    (address = 1 /\ builder = "_create_packet") =>
        /\ (args = Some(IdentifyArgs) => packet = <<85, 1, 254, 0, 0, 0, 167>>)
        /\ (args = Some(ReadFlash0180Args) =>
                packet = <<85, 1, 254, 15, 1, 3, 1, 128, 255, 114>>)

(* C2 amended: for address 1 the Identify request is 55 01 FE 00 00 00 AB  *)
(* and the ReadFlash request at 0x0180, length 0xFF, is                    *)
(* 55 01 FE 0F 01 03 01 80 FF 18 (the checksum bytes that make each frame  *)
(* sum to 0xFF modulo 256).                                                *)
C2_SeedBytes ==
    (address = 1 /\ builder = "_create_packet") =>
        /\ (args = Some(IdentifyArgs) => packet = <<85, 1, 254, 0, 0, 0, 171>>)
        /\ (args = Some(ReadFlash0180Args) =>
                packet = <<85, 1, 254, 15, 1, 3, 1, 128, 255, 24>>)

C2_Witness ==
    /\ address = 1
    /\ builder = "_create_packet"
    /\ args = Some(ReadFlash0180Args)
    /\ Len(packet) = 10

-----------------------------------------------------------------------------
(* Claims on the receive path, checked under SpecExchange *)

(* The bytes the reads of this exchange had before them *)
Input == header \o body \o rxbuf

S3FrameSummed == <<170, 1, 254, 0, 0, 4, 65, 66, 67, 68, 72>>

(* C3 as stated: a client with address 1 that receives                     *)
(* AA 01 FE 00 00 04 41 42 43 44 3B accepts it and returns 41 42 43 44.    *)
C3_S3AcceptedAsStated ==
    (xpc = "done" /\ ended = "ok" /\ address = 1 /\ Input = S3Frame) =>
        result = Some(S3Payload)

(* C3 amended: a client with address 1 that receives                       *)
(* AA 01 FE 00 00 04 41 42 43 44 48 (the checksum that makes the frame sum *)
(* to 0xFF modulo 256) accepts it and returns the payload 41 42 43 44; the *)
(* frame with the final byte 3B is rejected (the exchange returns None).   *)
C3_S3Accepted ==
    (xpc = "done" /\ ended = "ok" /\ address = 1) =>
        /\ (Input = S3FrameSummed => result = Some(S3Payload))
        /\ (Input = S3Frame => result = None)

C3_Witness ==
    /\ xpc = "done"
    /\ address = 1
    /\ Input = S3FrameSummed
    /\ result = Some(S3Payload)

(* C4: an exchange returns a payload only if the frame it read has byte 0  *)
(* equal to 0xAA, byte 1 equal to the client's address and a byte sum      *)
(* congruent to 0xFF modulo 256; a fully read frame that breaks one of the *)
(* three (the S3 frame ending in 3C among them) gives None, no payload.    *)
C4_AcceptOnlyValid ==
    LET response == header \o body
        valid == /\ response[1] = 170
                 /\ response[2] = address
                 /\ SumSeq(response) % 256 = 255
    IN  /\ (result # None =>
               /\ xpc = "done"
               /\ ended = "ok"
               /\ valid
               /\ result = Some(SubSeq(response, 7, Len(response) - 1)))
        /\ ((xpc = "done" /\ ended = "ok" /\ ~valid) =>
               result = None /\ raised = "none")
        /\ ((xpc = "done" /\ ended = "ok" /\ Input = S4Frame) => result = None)

C4_Witness ==
    /\ xpc = "done"
    /\ ended = "ok"
    /\ address = 1
    /\ Input = S4Frame
    /\ result = None

(* C5: a response-shaped frame built for the client's address from any     *)
(* group, command and payload, handed whole to the receive path, is        *)
(* accepted, and the bytes returned are the payload it was built from.     *)
C5_RoundTrip ==
    (xpc = "done" /\ raised = "none") =>
        \A g \in GroupSamples, c \in CmdSamples,
           p \in SeqsUpTo(PayloadBytes, MaxPayloadLen) :
            Input = response_frame(address, g, c, p) =>
                (ended = "ok" /\ result = Some(p))

C5_Witness ==
    /\ xpc = "done"
    /\ kind = "TCP"
    /\ address = 2
    /\ Len(Input) = 7 + MaxPayloadLen
    /\ Input = response_frame(2, CMD_GROUP_READ_MEM, CMD_READ_CONFIG, SubSeq(Input, 7, Len(Input) - 1))
    /\ result = Some(SubSeq(Input, 7, Len(Input) - 1))

(* Whether the input holds fewer bytes than the frame its header declares *)
InputShort ==
    \/ Len(Input) < 6
    \/ Len(Input) < 6 + Input[6] + 1

(* C6: one exchange consumes at most 6 + payload_len + 1 bytes, with       *)
(* payload_len byte 5 of the header it read (at most 6 while the header is *)
(* incomplete); when the input ends or stalls before the 6 header bytes or *)
(* the payload_len + 1 further bytes, the exchange ends returning None,    *)
(* having consumed only the bytes that were there.                         *)
C6_BoundedConsumption ==
    /\ consumed = Len(header) + Len(body)
    /\ Len(header) <= 6
    /\ (Len(header) < 6 => body = << >>)
    /\ (Len(header) = 6 => Len(body) <= header[6] + 1)
    /\ consumed <= 6 + (IF Len(header) = 6 THEN header[6] + 1 ELSE 0)
    /\ ((xpc = "done" /\ ended \in {"stall", "eof", "timeout"}) =>
            /\ InputShort
            /\ result = None
            /\ raised = "none"
            /\ consumed = Len(Input))
    /\ ((xpc = "done" /\ InputShort /\ ended \notin {"error", "closed"}) =>
            /\ ended \in {"stall", "eof", "timeout"}
            /\ result = None)
    /\ ((xpc \in {"header", "body"} /\ kind = "TCP" /\ rxbuf = << >>) =>
            ENABLED RecvHeaderTCP \/ ENABLED RecvBodyTCP)

C6_Witness ==
    /\ xpc = "done"
    /\ ended = "stall"
    /\ Len(header) = 6
    /\ header[6] = 170
    /\ consumed = 6 + MaxPayloadLen + 1

-----------------------------------------------------------------------------
(* Claims on identification, checked under SpecIdentify *)

(* The device name auto_detect_protocol matched against *)
device_name == device_name_of(idpayload[1])

Identified == pc = "idle" /\ raised = "none" /\ idpayload # None /\ idpayload[1] # << >>

-----------------------------------------------------------------------------
(* Claims on polling, checked under Spec *)

IdentifyFrame == create_packet(address, CMD_GROUP_CONNECTION, CMD_IDENTIFY, << >>)

(* C7 as stated: a client whose address is outside 1..247 writes no       *)
(* request frame to the transport.                                        *)
C7_NoRequestOutsideRange == (address \notin 1..247) => wire = << >>

(* The Identify exchange of the call returned a token no table row occurs in *)
UnknownToken ==
    /\ idpayload # None
    /\ \A row \in {TEM_104M_1, TEM_104M, TSM104, TEM_104_1, TEM_104} :
            ~Contains(device_name, row)

(* C9: when the variant is unset and the Identify exchange returns a token *)
(* that matches no table row, read_all_data raises RuntimeError, the only  *)
(* request it has written is Identify (no data-read request), the variant  *)
(* stays unset, and the next read_all_data starts with identification and  *)
(* writes Identify again.                                                  *)
C9_UnknownTokenAborts ==
    /\ [](UnknownToken =>
            /\ pc = "idle"
            /\ outcome = "RuntimeError"
            /\ protocol_type = "None"
            /\ wire = <<IdentifyFrame>>)
    /\ [][(UnknownToken /\ ncalls' = ncalls + 1) => pc' = "identify"]_vars
    /\ [][(pc = "identify" /\ is_open /\ IsByte(address)) => wire' = <<IdentifyFrame>>]_vars

C9_Witness ==
    /\ ncalls = 2
    /\ UnknownToken
    /\ idpayload = Some(<<88>>)
    /\ outcome = "RuntimeError"
    /\ wire = <<IdentifyFrame>>

(* C10: over the read_all_data calls of one client, an Identify request is *)
(* written only as the first request of a call that started with the       *)
(* variant unset, and a variant that is set (identified or pre-declared)   *)
(* never changes.                                                          *)
C10_IdentifyOnlyWhenUnset ==
    /\ [][(wire' # wire /\ wire' # << >> /\ wire'[Len(wire')] = IdentifyFrame) =>
            (pc = "identify" /\ protocol_type = "None" /\ wire = << >>)]_vars
    /\ [][(pc = "identify") => (protocol_type = "None" /\ wire = << >>)]_vars
    /\ [][protocol_type # "None" => protocol_type' = protocol_type]_vars

C10_Witness ==
    /\ ncalls = 2
    /\ pc = "idle"
    /\ outcome = "record"
    /\ protocol_type = "ARVAS_M1"
    /\ Len(wire) = 2
    /\ \A i \in 1..Len(wire) : wire[i] # IdentifyFrame

-----------------------------------------------------------------------------
(* Claims on the order and the results of a poll, checked under Spec *)

(* A read_all_data call on an ARVAS variant, on a client with a valid       *)
(* address, has returned its record                                        *)
ArvasReturned ==
    /\ pc = "idle"
    /\ outcome = "record"
    /\ protocol_type \in ArvasVariants
    /\ address \in 1..247

(* wire without the Identify request a call with the variant unset starts with *)
AfterIdentify == IF wire # << >> /\ wire[1] = IdentifyFrame THEN Tail(wire) ELSE wire

IsReadRtc(pkt) == pkt[4] = CMD_GROUP_READ_MEM /\ pkt[5] = CMD_READ_RTC

TotalsRequest ==
    create_packet(address, CMD_GROUP_READ_MEM, CMD_READ_CONFIG,
                  Append(totals_base(protocol_type), BlockLen))

InstantRequest ==
    create_packet(address, CMD_GROUP_READ_RAM, CMD_READ_RAM,
                  Append(instant_base(protocol_type), BlockLen))

(* C11 as stated: a read_all_data on an ARVAS variant writes, after the    *)
(* Identify request of a call with the variant unset, the ReadRTC request, *)
(* then the ReadFlash totals request, then the ReadRAM instantaneous       *)
(* request.                                                                *)
C11_RtcTotalsInstant ==
    ArvasReturned =>
        /\ Len(AfterIdentify) = 3
        /\ IsReadRtc(AfterIdentify[1])
        /\ AfterIdentify[2] = TotalsRequest
        /\ AfterIdentify[3] = InstantRequest

(* C12 as stated: a read_all_data call on a client with a valid address,   *)
(* whatever its connection state and its variant (unset or one of the five *)
(* tags), ends with a record or with the identification failure, never     *)
(* with another exception.                                                 *)
C12_RecordOrIdentificationFailure ==
    (pc = "idle" /\ ncalls > 0 /\ address \in 1..247 /\ protocol_type # "OTHER") =>
        outcome \in {"record", "RuntimeError"}

(* A TCP client with a valid address *)
TcpClient == kind = "TCP" /\ address \in 1..247

(* The ways an exchange of the TCP client fails on the transport *)
TcpFailures == {"eof", "timeout", "error"}

(* C13 as stated: in the TCP client, after a totals exchange that failed   *)
(* with a timeout, a short read or a socket error, the instantaneous       *)
(* request is still written and read_all_data returns a record; and an     *)
(* exchange that fails so leaves the client able to issue exchanges.       *)
C13_TcpFailureKeepsPolling ==
    /\ [][(TcpClient /\ pc = "instant" /\ ended \in TcpFailures) =>
            (wire' = Append(wire, InstantRequest) /\ outcome' = "record")]_vars
    /\ [][(TcpClient /\ is_open /\ wire' # wire /\ ended' \in TcpFailures) =>
            is_open']_vars

(* C14 as stated: when a Tesmart window read failed, so that the assembled *)
(* buffer lacks a window, the returned record holds no totals value, no    *)
(* flow value and nothing else decoded from that buffer.                   *)
C14_LostWindowNoValues ==
    (pc = "idle" /\ outcome = "record" /\ protocol_type = "TESMART"
        /\ address \in 1..247 /\ Len(full_payload) < 5 * BlockLen) =>
        /\ data_keys \cap {"Q", "M1", "V1", "V2", "T_nar", "G1", "G2"} = {}
        /\ data_keys = {}

-----------------------------------------------------------------------------
(* Claims on the parsers, checked under SpecParse *)

(* The payload is too short to hold 4 bytes at one of the offsets *)
TooShort(p, offsets) == \E o \in offsets : Len(p) < o + 4

(* The readings of parse_full_data and the offsets each is unpacked at *)
FullDataFields ==
    { <<"energy_Q", {888, 864}>>, <<"mass_M1", {840, 816}>>, <<"volume_V1", {792, 768}>>,
      <<"volume_V2", {796, 772}>>, <<"operating_time", {1028}>>, <<"temp_T1", {512}>>,
      <<"temp_T2", {516}>>, <<"flow_G1", {648}>>, <<"flow_G2", {652}>> }

(* C15 as stated: a payload too short to hold the 4 bytes of a field at    *)
(* that field's offset gives a result of parse_totals, parse_instantaneous *)
(* or parse_full_data without that field (absent, not a reading of 0).     *)
C15_ShortPayloadFieldAbsent ==
    /\ called = <<"parse_totals">> =>
        /\ \A i \in 1..Len(totals_combined(parser)) :
            LET f == totals_combined(parser)[i]
            IN  TooShort(pdata, {f[2], f[3]}) => f[1] \notin DOMAIN parsed[1]
        /\ (totals_t_nar(parser) # None /\ TooShort(pdata, {totals_t_nar(parser)[1]})) =>
                "T_nar" \notin DOMAIN parsed[1]
    /\ called = <<"parse_instantaneous">> =>
        \A i \in 1..Len(instant_floats(parser)) :
            LET f == instant_floats(parser)[i]
            IN  TooShort(pdata, {f[2]}) => f[1] \notin DOMAIN parsed[1]
    /\ called = <<"parse_full_data">> =>
        \A f \in FullDataFields : TooShort(pdata, f[2]) => parsed[1][f[1]] = None

(* The variants whose clock is BCD, the payload length parse_time asks     *)
(* for, and the indices of the bytes it uses as ss, mm, hh, dd, MM, YY     *)
BcdVariants == {"ARVAS_LEGACY", "ARVAS_LEGACY_1", "TESMART"}

TimeLen(v) ==
    CASE v = "ARVAS_LEGACY" -> 10
      [] v = "ARVAS_LEGACY_1" -> 7
      [] v = "TESMART" -> 1160
      [] OTHER -> 6

TimePos(v) ==
    CASE v = "ARVAS_LEGACY" -> <<1, 3, 5, 8, 9, 10>>
      [] v = "ARVAS_LEGACY_1" -> <<1, 2, 3, 5, 6, 7>>
      [] v = "TESMART" -> <<1155, 1156, 1157, 1158, 1159, 1160>>
      [] OTHER -> <<1, 2, 3, 4, 5, 6>>

BadNibble(b) == b \div 16 > 9 \/ b % 16 > 9

(* C16 as stated: parse_time of a BCD variant returns None when one of the *)
(* six bytes it uses has a nibble greater than 9, and bcd_to_int gives a   *)
(* value in 0..99 only for a byte whose two nibbles are at most 9.         *)
C16_BadNibbleRejected ==
    /\ (/\ called = <<"parse_time">>
        /\ parser \in BcdVariants
        /\ Len(pdata) >= TimeLen(parser)
        /\ \E k \in 1..6 : BadNibble(pdata[TimePos(parser)[k]])) => parsed = None
    /\ (called = <<"bcd_to_int">> /\ parsed[1] \in 0..99) => ~BadNibble(pdata[1])

(* The value a clock byte stands for: packed decimal for the BCD variants *)
Decoded(v, b) == IF v \in BcdVariants THEN (b \div 16) * 10 + (b % 16) ELSE b

(* The fields [ss, mm, hh, dd, MM, YY] parse_time of variant v decodes from p *)
TimeOf(v, p) == [k \in 1..6 |-> Decoded(v, p[TimePos(v)[k]])]

(* C17: for every parser and every clock payload of sufficient length,     *)
(* parse_time returns None when the decoded month is outside 1..12, the    *)
(* day outside 1..31, the hour outside 0..23 or the minute or second       *)
(* outside 0..59, and a returned time has the year 2000 + YY.              *)
C17_TimeRangeChecked ==
    (called = <<"parse_time">> /\ Len(pdata) >= TimeLen(parser)) =>
        LET t == TimeOf(parser, pdata)
        IN  /\ (\/ t[5] \notin 1..12
                \/ t[4] \notin 1..31
                \/ t[3] \notin 0..23
                \/ t[2] \notin 0..59
                \/ t[1] \notin 0..59) => parsed = None
            /\ parsed # None => parsed[1].year = 2000 + t[6]

C17_Witness ==
    /\ called = <<"parse_time">>
    /\ parser = "ARVAS_M1"
    /\ pdata = <<12, 34, 17, 5, 13, 25>>
    /\ parsed = None

SeedRtcPayload == <<18, 0, 52, 0, 23, 0, 0, 5, 8, 37>>

(* C18: ArvasLegacyParser.parse_time on at least 10 bytes takes seconds,   *)
(* minutes, hours from bcd(p[0]), bcd(p[2]), bcd(p[4]) and day, month,     *)
(* year from bcd(p[7]), bcd(p[8]), 2000 + bcd(p[9]), whatever p[1], p[3],  *)
(* p[5], p[6] are; 12 00 34 00 17 00 00 05 08 25 gives 2025-08-05          *)
(* 17:34:12; fewer than 10 bytes give no time.                             *)
C18_LegacyStrideTwo ==
    (called = <<"parse_time">> /\ parser = "ARVAS_LEGACY") =>
        IF Len(pdata) < 10 THEN parsed = None
        ELSE LET bcd(b) == (b \div 16) * 10 + (b % 16)
                 expected == [year |-> 2000 + bcd(pdata[10]), month |-> bcd(pdata[9]),
                              day |-> bcd(pdata[8]), hour |-> bcd(pdata[5]),
                              minute |-> bcd(pdata[3]), second |-> bcd(pdata[1])]
             IN  /\ parsed # None => parsed = Some(expected)
                 /\ (/\ expected.month \in 1..12
                     /\ expected.day \in 1..28
                     /\ expected.hour \in 0..23
                     /\ expected.minute \in 0..59
                     /\ expected.second \in 0..59) => parsed = Some(expected)
                 /\ pdata = SeedRtcPayload =>
                        parsed = Some([year |-> 2025, month |-> 8, day |-> 5,
                                       hour |-> 17, minute |-> 34, second |-> 12])

C18_Witness ==
    /\ called = <<"parse_time">>
    /\ parser = "ARVAS_LEGACY"
    /\ pdata = <<18, 255, 52, 255, 23, 255, 255, 5, 8, 37>>
    /\ parsed = Some([year |-> 2025, month |-> 8, day |-> 5,
                      hour |-> 17, minute |-> 34, second |-> 12])

(* C20: for every scale code 0..255 the coefficient is 10, 100, 1000 for   *)
(* the volume codes 3, 4, 5, is 10, 100, 1000, 10000, 100000 for the       *)
(* energy codes 2..6, and is 1 for every other code; it is never 0, and    *)
(* parse_full_data on a buffer that holds both scale codes ends with       *)
(* status OK (no division fails).                                          *)
C20_CoeffTable ==
    /\ (Len(called) = 2 /\ called[1] = "get_tesmart_coeff") =>
        LET c == pdata[1]
            k == parsed[1]
        IN  /\ k >= 1
            /\ called[2] = "volume" =>
                  k = (CASE c = 3 -> 10 [] c = 4 -> 100 [] c = 5 -> 1000 [] OTHER -> 1)
            /\ called[2] = "energy" =>
                  k = (CASE c = 2 -> 10 [] c = 3 -> 100 [] c = 4 -> 1000
                         [] c = 5 -> 10000 [] c = 6 -> 100000 [] OTHER -> 1)
    /\ (called = <<"parse_full_data">> /\ Len(pdata) >= 764) =>
            /\ parsed[1].device_status = "OK"
            /\ parsed[1].energy_Q # None

C20_Witness ==
    /\ called = <<"get_tesmart_coeff", "energy">>
    /\ pdata = <<6>>
    /\ parsed = Some(100000)

-----------------------------------------------------------------------------
(* Claims on the clock reads, checked under SpecRtc *)

(* The parameters the request table gives a clock read of variant v *)
RtcParameters(v) == IF v = "ARVAS_LEGACY" THEN <<0, 16, 10>> ELSE <<0, 0, 7>>

(* C19 as stated: every ReadRTC request written carries three parameter    *)
(* bytes [addr_hi, addr_lo, len], so that its length byte is 3: 00 00 07   *)
(* for ARVAS_M, ARVAS_M1 and ARVAS_LEGACY_1, 00 10 0A for ARVAS_LEGACY.    *)
C19_RtcThreeParameterBytes ==
    \A i \in 1..Len(wire) :
        IsReadRtc(wire[i]) =>
            /\ wire[i][6] = 3
            /\ Len(wire[i]) = 10
            /\ protocol_type \in ArvasVariants =>
                    SubSeq(wire[i], 7, 9) = RtcParameters(protocol_type)

-----------------------------------------------------------------------------
(* Claims on the pacing of a poll, checked under Spec *)

(* The positions of read_all_data at which the next step writes a request *)
WritingPositions == {"identify", "totals", "instant", "window"}

(* C21 as stated: within one read_all_data a pause step separates any two  *)
(* consecutive request writes; a step that writes a request is followed by *)
(* a pause or by the return, never by another request write.               *)
C21_PauseBetweenRequests ==
    [][(address \in 1..247 /\ Len(wire') = Len(wire) + 1) =>
            pc' \notin WritingPositions]_vars

-----------------------------------------------------------------------------
(* Claims on the client factory, checked under SpecFactory *)

FactoryCalled == fargs # None
NoClient == fclass = "none" /\ fclient = None

(* C22: create_client raises ValueError for a connection type that is not  *)
(* registered, TypeError for COM without port and for TCP without host,    *)
(* each before any client class is called and with no client returned; a   *)
(* COM call with only port gives a client with baudrate 9600, a TCP call   *)
(* with only host a client with port 5009.                                 *)
C22_EagerConfigurationErrors ==
    FactoryCalled =>
        LET ct == fargs[1].connection_type
            kw == fargs[1].kwargs
        IN  /\ ct \notin {"COM", "TCP"} => (fraised = "ValueError" /\ NoClient)
            /\ (ct = "COM" /\ "port" \notin DOMAIN kw) => (fraised = "TypeError" /\ NoClient)
            /\ (ct = "TCP" /\ "host" \notin DOMAIN kw) => (fraised = "TypeError" /\ NoClient)
            /\ (ct = "COM" /\ DOMAIN kw = {"port"}) =>
                    /\ fraised = "none"
                    /\ fclient # None
                    /\ fclient[1].port = kw.port
                    /\ fclient[1].baudrate = 9600
            /\ (ct = "TCP" /\ DOMAIN kw = {"host"}) =>
                    /\ fraised = "none"
                    /\ fclient # None
                    /\ fclient[1].host = kw.host
                    /\ fclient[1].port = 5009
            /\ (fclient # None /\ ct = "COM" /\ "baudrate" \in DOMAIN kw) =>
                    fclient[1].baudrate = kw.baudrate
            /\ (fclient # None /\ ct = "TCP" /\ "port" \in DOMAIN kw) =>
                    fclient[1].port = kw.port

C22_Witness ==
    /\ FactoryCalled
    /\ fargs[1].connection_type = "TCP"
    /\ DOMAIN fargs[1].kwargs = {"host"}
    /\ fraised = "none"
    /\ fclient # None
    /\ fclient[1].port = 5009

(* The keywords of a call are the required ones of its connection type and *)
(* optional ones of that type                                              *)
WellFormedCall ==
    LET ct == fargs[1].connection_type
        names == DOMAIN fargs[1].kwargs
    IN  \/ ct = "COM" /\ "port" \in names /\ names \subseteq {"port", "baudrate", "timeout"}
        \/ ct = "TCP" /\ "host" \in names /\ names \subseteq {"host", "port", "timeout"}

(* C23 as stated: a create_client call with the required parameters and a  *)
(* timeout keyword returns a client whose timeout is the given value;      *)
(* without the keyword the timeout is 2 (COM) or 5 (TCP).                  *)
C23_TimeoutKeyword ==
    (FactoryCalled /\ WellFormedCall) =>
        /\ fraised = "none"
        /\ fclient # None
        /\ fclient[1].timeout =
                GetKw(fargs[1].kwargs, "timeout",
                      IF fargs[1].connection_type = "COM" THEN 2 ELSE 5)

-----------------------------------------------------------------------------
(* Claims on the Tesmart buffer, checked under Spec *)

(* The offsets of the assembled buffer the Tesmart decoder reads *)
DecoderOffsets == (512..655) \cup (762..891) \cup (1028..1031) \cup (1154..1159)

(* A Tesmart poll returned after all five windows gave their 255 bytes *)
AllWindowsRead ==
    /\ pc = "idle"
    /\ outcome = "record"
    /\ protocol_type = "TESMART"
    /\ address \in 1..247
    /\ Len(wire) >= 5
    /\ Len(full_payload) = 5 * BlockLen

(* C24 as stated: when all five window reads succeed, each returning the   *)
(* device memory from its base address, the byte at index o of the         *)
(* assembled buffer is the device memory byte at address o, for every      *)
(* offset o the decoder reads.                                             *)
C24_BufferIsMemoryImage ==
    AllWindowsRead =>
        \A o \in DecoderOffsets : full_payload[o + 1] = DeviceMemory(o)

-----------------------------------------------------------------------------
(* Claims on the TemDriver exchange, checked under SpecDriver *)

(* The bytes the read of the last TemDriver exchange returned *)
DriverResponse == Take(rxbuf, consumed)

(* C25 as stated: TemDriver._send_and_receive returns a payload only for a *)
(* response of at least 7 bytes whose byte 0 is 0xAA, whose byte 1 is the  *)
(* address byte of the request sent, whose byte 5 is the frame length      *)
(* minus 7 and whose bytes sum to 0xFF modulo 256; every other response    *)
(* gives None.                                                             *)
C25_DriverAcceptsOnlyValidFrames ==
    (xpc = "done" /\ kind = "TemDriver" /\ result # None) =>
        LET r == DriverResponse
        IN  /\ Len(r) >= 7
            /\ r[1] = 170
            /\ r[2] = packet[2]
            /\ r[6] = Len(r) - 7
            /\ SumSeq(r) % 256 = 255

-----------------------------------------------------------------------------
(* Claims on the TemDriver callers, checked under SpecDriverPoll *)

(* The name the identification of the TemDriver caller returned *)
driver_device_name == device_name_of(idpayload[1])

(* The name is one of a legacy model: TEM-104 without TEM-104M *)
LegacyName(name) == Contains(name, TEM_104) /\ ~Contains(name, TEM_104M)

(* The requests of a poll with Tem104Protocol after the identification *)
LegacyRequests ==
    <<create_request(address, 15, 2, <<16, 10>>),
      create_request(address, 12, 1, <<34, 0, 116>>),
      create_request(address, 15, 1, <<2, 0, 255>>)>>

(* C26 as stated: a device whose name is a legacy one is polled with       *)
(* Tem104Protocol (RTC at 0x10 length 10, RAM at 0x2200, totals at         *)
(* 0x0200), and Tem104MProtocol is chosen only for names with TEM-104M.    *)
C26_LegacyNameLegacyProtocol ==
    (drv_protocol # "none" /\ Contains(driver_device_name, TEM_104)) =>
        /\ LegacyName(driver_device_name) => drv_protocol = "Tem104Protocol"
        /\ drv_protocol = "Tem104MProtocol" => Contains(driver_device_name, TEM_104M)
        /\ (LegacyName(driver_device_name) /\ pc = "idle") =>
                SubSeq(wire, 2, Len(wire)) = LegacyRequests

-----------------------------------------------------------------------------
(* Claims on the TCP clients, checked under SpecTcpExchange *)

(* The bytes the stream delivered to this exchange: read or still queued *)
Delivered == header \o body \o rxbuf

(* C27 as stated: when the stream delivers a valid response frame, in      *)
(* whatever chunks the recv calls return it (a first chunk of fewer than 6 *)
(* bytes included), _send_and_receive of each TCP client returns the       *)
(* payload it returns for the frame in one piece.                          *)
C27_ChunkingInvisible ==
    (/\ xpc = "done"
     /\ wire # << >>
     /\ Delivered \in GoodFrames(packet[4], packet[5])
     /\ Delivered[2] = address) =>
        result = Some(SubSeq(Delivered, 7, Len(Delivered) - 1))

-----------------------------------------------------------------------------
(* Claims on the connection pool, checked under SpecPool *)

(* C28: after any sequence of get_connection, release_connection and       *)
(* release_all on a manager with max_connections >= 1 the pool holds at    *)
(* most max_connections clients, the two maps have the same ids, every     *)
(* client created and no longer pooled has had disconnect() called, and a  *)
(* get_connection with a pooled id returns the pooled client and creates   *)
(* none.                                                                   *)
C28_PoolBounded ==
    /\ [](/\ Len(connections) <= max_connections
          /\ Keys(connections) = Keys(connection_usage)
          /\ Cardinality(Keys(connections)) = Len(connections)
          /\ Len(connection_usage) = Len(connections)
          /\ \A c \in 1..pool_made : c \in Values(connections) \/ c \in disconnected)
    /\ [][(/\ pool_ret'[1].op = "get_connection"
           /\ pool_ret'[1].id \in Keys(connections)) =>
                /\ pool_made' = pool_made
                /\ connections' = connections
                /\ pool_ret'[1].client = Some(Lookup(connections, pool_ret'[1].id))]_vars

C28_Witness ==
    /\ pool_ret # None
    /\ pool_ret[1].op = "get_connection"
    /\ pool_ret[1].client # None
    /\ Len(connections) = max_connections
    /\ disconnected # {}
    /\ Lookup(connection_usage, pool_ret[1].id) >= 2

-----------------------------------------------------------------------------
(* Claims on the TCP client's session, checked under SpecTcpSession *)

(* The connections connect has opened and nobody has closed *)
OpenConnections == sock_connected - sock_closed

(* C29: for the TCP client, after any sequence of connect, disconnect and  *)
(* exchange calls, the socket field is set exactly when a connection       *)
(* opened by connect has not been closed; connect on a connected client    *)
(* opens no second socket; disconnect on a disconnected client does        *)
(* nothing; and an exchange attempted while disconnected raises            *)
(* ConnectionError without writing any byte to a transport                 *)
C29_SocketFieldTracksConnection ==
    /\ [](/\ OpenConnections \in {0, 1}
          /\ is_open <=> OpenConnections = 1)
    /\ [][/\ (last_call' = "connect" /\ is_open) =>
                /\ is_open'
                /\ UNCHANGED <<sock_created, sock_connected, sock_closed, wire>>
          /\ (last_call' = "disconnect" /\ ~is_open) =>
                /\ ~is_open'
                /\ UNCHANGED <<sock_created, sock_connected, sock_closed, wire>>
          /\ (last_call' = "exchange" /\ ~is_open) =>
                /\ raised' = "ConnectionError"
                /\ ~is_open'
                /\ UNCHANGED <<sock_created, sock_connected, sock_closed, wire>>]_vars

(* A second connection is open after the first was closed by a failed     *)
(* exchange, and an exchange on the closed client had raised in between    *)
C29_Witness ==
    /\ is_open
    /\ sock_connected = 2
    /\ sock_closed = 1
    /\ wire # << >>
    /\ last_call = "connect"
    /\ ended = "closed"

-----------------------------------------------------------------------------
(* Claims on the callers, checked under SpecCallers *)

(* C30: in every caller that opens a client connection and polls, the      *)
(* connection is eventually released with disconnect on every exit path,   *)
(* including the path where connect succeeded and read_all_data raised:    *)
(* every connection that is opened is closed later on                      *)
C30_ReleasedOnEveryExit == (OpenConnections = 1) ~> (OpenConnections = 0)

====
